---- MODULE Spec2Model ----
(***************************************************************************)
(* Model of the Braze-Eppo feature flag integration.                       *)
(*                                                                         *)
(*   EppoService  (services/eppoService.js): the assignment tracker with   *)
(*                its recentAssignments Map, currentRequest slot and the   *)
(*                logAssignment callback handed to the Eppo SDK.           *)
(*   BrazeService (services/brazeService.js): the campaign dispatcher.     *)
(*   server.js    : processWebhookAndSendMessage and the HTTP handlers.    *)
(*                                                                         *)
(* JavaScript runs every synchronous stretch of a handler to completion,   *)
(* so one action of this model is one such stretch: from the arrival of a  *)
(* request, or the settling of an awaited promise, to the next await.      *)
(***************************************************************************)
EXTENDS Integers, Sequences, FiniteSets, Bags, TLC

(***************************************************************************)
(* JavaScript values.  Strings are TLA+ strings; undefined and null are    *)
(* two reserved strings no input contains.  An optional object is a        *)
(* sequence of length at most one (<<>> is null/undefined).                *)
(***************************************************************************)
Undefined == "<undefined>"
Null == "<null>"

\* Truthiness of a string-or-nullish value (the operand of || and of if).
Truthy(v) == v \notin {Undefined, Null, ""}

\* a || b
OrElse(a, b) == IF Truthy(a) THEN a ELSE b

\* ${v} inside a template literal.
Str(v) == IF v = Undefined THEN "undefined" ELSE IF v = Null THEN "null" ELSE v

\* s.includes(sub)
Includes(s, sub) ==
  \E i \in 1..(Len(s) - Len(sub) + 1) : SubSeq(s, i, i + Len(sub) - 1) = sub

(***************************************************************************)
(* The JavaScript Map: a sequence of [key, value] entries in insertion     *)
(* order.  set() on a present key replaces the value in place, set() on an *)
(* absent key appends; keys().next().value is the first entry's key.       *)
(***************************************************************************)
MapKeys(m) == {m[i].key : i \in 1..Len(m)}
MapHas(m, k) == \E i \in 1..Len(m) : m[i].key = k
MapIndex(m, k) == CHOOSE i \in 1..Len(m) : m[i].key = k
\* get(): <<>> stands for undefined, <<v>> for the stored value.
MapGet(m, k) == IF MapHas(m, k) THEN <<m[MapIndex(m, k)].value>> ELSE <<>>
\* Variant of MapSet in which set() on a present key moves the entry to the
\* end of the insertion order.
MapSetMovesToEnd(m, k, v) ==
  IF MapHas(m, k)
  THEN LET i == MapIndex(m, k)
       IN  Append(SubSeq(m, 1, i - 1) \o SubSeq(m, i + 1, Len(m)), [key |-> k, value |-> v])
  ELSE Append(m, [key |-> k, value |-> v])

MapSet(m, k, v) ==
  IF MapHas(m, k)
  THEN [m EXCEPT ![MapIndex(m, k)] = [key |-> k, value |-> v]]
  ELSE Append(m, [key |-> k, value |-> v])
MapDelete(m, k) ==
  IF MapHas(m, k)
  THEN LET i == MapIndex(m, k) IN SubSeq(m, 1, i - 1) \o SubSeq(m, i + 1, Len(m))
  ELSE m
MapFirstKey(m) == m[1].key

(***************************************************************************)
(* Configuration and inputs.                                               *)
(***************************************************************************)
\* `this.recentAssignments.size > 100`
Capacity == 100

\* process.env.EXPERIMENT_FLAG_KEY || 'braze_message_experiment'
ExperimentFlagKey == "braze_message_experiment"

\* User attribute maps: a property that is absent reads as undefined.
Attrs(tier) == [subscription_tier |-> tier]
EmptyAttrs == Attrs(Undefined)
AttrInputs == {EmptyAttrs, Attrs("premium")}

UserInputs == {"u1"}
\* The flag keys a caller of getAssignment passes; the first parameter
\* may be left out by a caller, which JavaScript reads as undefined.
FlagKeyInputs == {ExperimentFlagKey, Undefined}

\* The variations of the experiment.
Variations == {"treatment", "control"}

(***************************************************************************)
(* The Eppo SDK is opaque.  One getStringAssignment(flagKey, subject,      *)
(* attributes, null) call either throws, or returns a variation, or        *)
(* returns the null default.  When it computed a variation it may call the *)
(* registered logAssignment once, before it returns or throws, with an     *)
(* event that carries the variation and may or may not carry flagKey and   *)
(* subject.  No event is logged for the default.                           *)
(***************************************************************************)
AssignmentEvent(flagKey, subject, variation) ==
  [flagKey |-> flagKey, subject |-> subject, variation |-> variation]

EventsFor(flagKey, userId, variation) ==
  {AssignmentEvent(f, s, variation) : f \in {flagKey, Undefined}, s \in {userId, Undefined}}

Behaviour(throws, result, events) ==
  [throws |-> throws, result |-> result, events |-> events]

\* Every behaviour of one provider call.
ProviderBehaviours(flagKey, userId) ==
  UNION {{Behaviour(FALSE, r, e) :
            e \in {<<>>} \cup {<<ev>> : ev \in EventsFor(flagKey, userId, r)}} :
         r \in Variations}
  \cup {Behaviour(FALSE, Null, <<>>)}
  \cup {Behaviour(TRUE, Null, e) :
          e \in {<<>>} \cup {<<ev>> : ev \in EventsFor(flagKey, userId, "treatment")}}

\* The behaviours in which an event, when logged, carries neither flagKey
\* nor subject, so that logAssignment takes both from currentRequest, and
\* in which a call that throws has logged nothing.
BareEventBehaviours(flagKey, userId) ==
  {b \in ProviderBehaviours(flagKey, userId) :
     /\ b.events # <<>> => (b.events[1].flagKey = Undefined /\ b.events[1].subject = Undefined)
     /\ b.throws => b.events = <<>>}

VARIABLES
  client,                 \* this.client is set (EppoSdk.getInstance())
  initialized,            \* this.initialized
  recentAssignments,      \* this.recentAssignments
  assignmentLoggerCalled, \* this.assignmentLoggerCalled
  currentRequest,         \* this.currentRequest: <<>> or <<[flagKey, userId, userAttributes]>>
  initPc,                 \* where initializeEppo() stands
  env,                    \* process.env, fixed at start-up
  lastCall,               \* the latest getAssignment call: its arguments and what it returned
  held,                   \* provider input whose evaluation is held fixed: <<>> or <<[input, throws, result]>>
  heldReturns,            \* what getAssignment returned for the held input so far
  insertionOrder,         \* the keys of recentAssignments, oldest insertion first
  inv,                    \* the running invocations of processWebhookAndSendMessage (a bag)
  pendingWebhooks,        \* webhooks Braze still has to send for triggered campaigns
  callerRequests,         \* requests received from callers other than Braze
  brazeRequests,          \* webhook requests received from Braze
  triggerCalls,           \* brazeService.triggerCampaign calls made so far
  braze,                  \* BrazeService: this.apiKey and this.restEndpoint are set, and a call made on it directly
  enrichment,             \* a call of HightouchService.getEnrichedUserAttributes: <<>> or <<[...]>>
  typedCall               \* the latest getBooleanAssignment or getNumericAssignment call

serverVars == <<inv, pendingWebhooks, callerRequests, brazeRequests, triggerCalls>>

serviceVars == <<braze, enrichment, typedCall>>

trackerVars == <<client, initialized, recentAssignments, assignmentLoggerCalled, currentRequest>>

(***************************************************************************)
(* EppoService.logAssignment, the callback registered with the SDK.        *)
(***************************************************************************)
\* Variant of EffectiveFlagKey without any fallback.
EffectiveFlagKeyEventOnly(ev, ctx) ==
  ev.flagKey

\* Variant of EffectiveFlagKey that ignores currentRequest.
EffectiveFlagKeyNoContext(ev, ctx) ==
  OrElse(ev.flagKey, "unknown")

\* assignment.flagKey || (this.currentRequest ? this.currentRequest.flagKey : 'unknown')
EffectiveFlagKey(ev, ctx) ==
  OrElse(ev.flagKey, IF ctx # <<>> THEN ctx[1].flagKey ELSE "unknown")

\* Variant of EffectiveSubject that ignores currentRequest.
EffectiveSubjectNoContext(ev, ctx) == OrElse(ev.subject, "unknown")

\* assignment.subject || (this.currentRequest ? this.currentRequest.userId : 'unknown')
EffectiveSubject(ev, ctx) ==
  OrElse(ev.subject, IF ctx # <<>> THEN ctx[1].userId ELSE "unknown")

\* `${subject}:${flagKey}`
AssignmentKey(subject, flagKey) == Str(subject) \o ":" \o Str(flagKey)

\* { ...assignment, flagKey: flagKey }
AssignmentToStore(ev, flagKey) ==
  [subject |-> ev.subject, flagKey |-> flagKey, variation |-> ev.variation]

\* Variants of CleanUp: one that lets the Map grow one past the limit, and
\* one that drops the newest entry instead of the oldest.
CleanUpOffByOne(m) == IF Len(m) > Capacity + 1 THEN MapDelete(m, MapFirstKey(m)) ELSE m
CleanUpNewest(m) == IF Len(m) > Capacity THEN MapDelete(m, m[Len(m)].key) ELSE m

\* Variant of CleanUp that empties the Map once it is over the limit.
CleanUpClears(m) == IF Len(m) > Capacity THEN <<>> ELSE m

\* Clean up old assignments (keep only last 100)
CleanUp(m) == IF Len(m) > Capacity THEN MapDelete(m, MapFirstKey(m)) ELSE m

\* The Map after logAssignment(ev) ran with currentRequest = ctx.
LogAssignment(m, ctx, ev) ==
  LET flagKey == EffectiveFlagKey(ev, ctx)
      subject == EffectiveSubject(ev, ctx)
  IN  CleanUp(MapSet(m, AssignmentKey(subject, flagKey), AssignmentToStore(ev, flagKey)))

\* The Map after the SDK delivered the events of one call, in order.
RECURSIVE LogAll(_, _, _)
LogAll(m, ctx, events) ==
  IF events = <<>> THEN m
  ELSE LogAll(LogAssignment(m, ctx, Head(events)), ctx, Tail(events))

(***************************************************************************)
(* EppoService.getAssignment.                                              *)
(***************************************************************************)
\* Variant of NotInitialized that returns early only when both are unset.
NotInitializedBothUnset(hasClient, isInitialized) == ~hasClient /\ ~isInitialized

\* Variant of NotInitialized that tests this.client alone.
NotInitializedClientOnly(hasClient, isInitialized) == ~hasClient

\* if (!this.client || !this.initialized)
NotInitialized(hasClient, isInitialized) == ~hasClient \/ ~isInitialized

\* this.currentRequest = { flagKey, userId, userAttributes }
RequestContext(flagKey, userId, userAttributes) ==
  <<[flagKey |-> flagKey, userId |-> userId, userAttributes |-> userAttributes]>>

\* Variant of Lookup that leaves the record under `${userId}:undefined`.
LookupKeepStale(m, flagKey, userId) ==
  LET assignmentKey == AssignmentKey(userId, flagKey)
      undefinedKey  == Str(userId) \o ":undefined"
      found         == MapGet(m, assignmentKey)
      stored        == MapGet(m, undefinedKey)
  IN  IF found # <<>>
      THEN [map |-> m, details |-> found, from |-> "stored", hit |-> <<assignmentKey>>]
      ELSE IF stored # <<>>
      THEN LET fixed == [stored[1] EXCEPT !.flagKey = flagKey]
           IN  [map     |-> MapSet(m, assignmentKey, fixed),
                details |-> <<fixed>>,
                from    |-> "rekeyed",
                hit     |-> <<undefinedKey>>]
      ELSE [map |-> m, details |-> <<>>, from |-> "none", hit |-> <<>>]

\* The lookup under `${userId}:${flagKey}` and, when that misses, the
\* re-keying of a record stored under `${userId}:undefined`.
Lookup(m, flagKey, userId) ==
  LET assignmentKey == AssignmentKey(userId, flagKey)
      undefinedKey  == Str(userId) \o ":undefined"
      found         == MapGet(m, assignmentKey)
      stored        == MapGet(m, undefinedKey)
  IN  IF found # <<>>
      THEN [map |-> m, details |-> found, from |-> "stored", hit |-> <<assignmentKey>>]
      ELSE IF stored # <<>>
      THEN LET fixed == [stored[1] EXCEPT !.flagKey = flagKey]
           IN  [map     |-> MapDelete(MapSet(m, assignmentKey, fixed), undefinedKey),
                details |-> <<fixed>>,
                from    |-> "rekeyed",
                hit     |-> <<undefinedKey>>]
      ELSE [map |-> m, details |-> <<>>, from |-> "none", hit |-> <<>>]

\* Variant of FallbackDetails that reads a flag which was not reset when
\* the call began.
FallbackDetailsStaleFlag(flagKey, userId, assignment, loggerCalled, m) ==
  LET fired == loggerCalled \/ assignmentLoggerCalled
  IN  [flagKey |-> flagKey, allocation |-> Null, variation |-> assignment, subject |-> userId,
       debug |-> [assignmentLoggerFired  |-> fired,
                  storedAssignmentsCount |-> Len(m),
                  lookupKey |-> AssignmentKey(userId, flagKey),
                  note |-> IF fired
                           THEN "Logger fired but assignment not found in storage"
                           ELSE "Assignment logger did not fire - may be cached or default assignment"]]

\* const fallbackDetails = { ... debug: { ... } }
FallbackDetails(flagKey, userId, assignment, loggerCalled, m) ==
  [flagKey |-> flagKey, allocation |-> Null, variation |-> assignment, subject |-> userId,
   debug |-> [assignmentLoggerFired  |-> loggerCalled,
              storedAssignmentsCount |-> Len(m),
              lookupKey |-> AssignmentKey(userId, flagKey),
              note |-> IF loggerCalled
                       THEN "Logger fired but assignment not found in storage"
                       ELSE "Assignment logger did not fire - may be cached or default assignment"]]

\* Variant of ReturnedAssignment that prefers the stored record's variation.
ReturnedAssignmentFromDetails(result, details) ==
  IF details # <<>> THEN details[1].variation ELSE result

\* The `assignment` field of the object returned after the provider call.
ReturnedAssignment(result, details) == result

\* The three objects getAssignment returns.
UninitializedReturn ==
  [path |-> "uninitialized", providerCalled |-> FALSE,
   assignment |-> Null, assignmentDetails |-> <<>>, initialized |-> <<FALSE>>,
   detailsFrom |-> "null"]

\* Variant of CaughtReturn that hands out a details record.
CaughtReturnWithDetails ==
  [path |-> "caught", providerCalled |-> TRUE,
   assignment |-> Null,
   assignmentDetails |-> <<[subject |-> Undefined, flagKey |-> Undefined, variation |-> Null]>>,
   initialized |-> <<>>, detailsFrom |-> "null"]

\* The object the catch block returns.
CaughtReturn ==
  [path |-> "caught", providerCalled |-> TRUE,
   assignment |-> Null, assignmentDetails |-> <<>>, initialized |-> <<>>,
   detailsFrom |-> "null"]

NormalReturn(flagKey, userId, result, look, loggerCalled) ==
  [path |-> "returned", providerCalled |-> TRUE,
   assignment |-> ReturnedAssignment(result, look.details),
   assignmentDetails |->
     IF look.details # <<>> THEN look.details
     ELSE <<FallbackDetails(flagKey, userId, result, loggerCalled, look.map)>>,
   initialized |-> <<>>,
   detailsFrom |-> IF look.details # <<>> THEN look.from ELSE "fallback"]

\* The events of one call with the key each was stored under.
LoggedUnder(ctx, events) ==
  [i \in 1..Len(events) |->
     [event |-> events[i],
      key   |-> AssignmentKey(EffectiveSubject(events[i], ctx), EffectiveFlagKey(events[i], ctx))]]

\* What is recorded of a call: its arguments, whether the provider call
\* threw, the object it returned, the
\* events logged during it, the cache key its lookup found a record under,
\* the one the call before it found, and the keys it added and removed.
CallRecord(flagKey, userId, userAttributes, threw, returned, logged, hit, before, after) ==
  [tick |-> 1 - lastCall.tick,
   flagKey |-> flagKey, userId |-> userId, userAttributes |-> userAttributes,
   threw |-> threw,
   returned |-> returned, logged |-> logged, hit |-> hit, prevHit |-> lastCall.hit,
   added |-> MapKeys(after) \ MapKeys(before),
   removed |-> MapKeys(before) \ MapKeys(after)]

\* Before any call.
NoCall ==
  [tick |-> 0,
   flagKey |-> Undefined, userId |-> Undefined, userAttributes |-> EmptyAttrs,
   threw |-> FALSE,
   returned |-> [path |-> "none", providerCalled |-> FALSE, assignment |-> Null,
                 assignmentDetails |-> <<>>, initialized |-> <<>>, detailsFrom |-> "null"],
   logged |-> <<>>, hit |-> <<>>, prevHit |-> <<>>, added |-> {}, removed |-> {}]

\* this.currentRequest when getAssignment returns: the try block clears it
\* (`this.currentRequest = null`), the catch block does not touch it.
ContextOnReturn(threw, ctx) == IF threw THEN ctx ELSE <<>>

Input(flagKey, userId, userAttributes) ==
  [flagKey |-> flagKey, userId |-> userId, userAttributes |-> userAttributes]

IsHeld(flagKey, userId, userAttributes) ==
  held # <<>> /\ held[1].input = Input(flagKey, userId, userAttributes)

\* The provider behaviours possible for one call: any, except that the
\* evaluation of the held input is the held one.
Evaluations(flagKey, userId, userAttributes) ==
  {b \in ProviderBehaviours(flagKey, userId) :
     IsHeld(flagKey, userId, userAttributes)
       => (b.throws = held[1].throws /\ b.result = held[1].result)}

\* The order in which the keys now in the Map were inserted, kept from the
\* key sets before and after each call.
OrderAfter(order, before, after) ==
  LET keysAfter == MapKeys(after)
      kept      == SelectSeq(order, LAMBDA k : k \in keysAfter)
      added     == keysAfter \ MapKeys(before)
  IN  IF added = {} THEN kept ELSE Append(kept, CHOOSE k \in added : TRUE)

getAssignment(flagKey, userId, userAttributes, beh) ==
  /\ IF NotInitialized(client, initialized)
     THEN /\ UNCHANGED trackerVars
          /\ lastCall' = CallRecord(flagKey, userId, userAttributes, FALSE,
                                    UninitializedReturn, <<>>, <<>>, recentAssignments, recentAssignments)
     ELSE LET ctx    == RequestContext(flagKey, userId, userAttributes)
              stored == LogAll(recentAssignments, ctx, beh.events)
              logged == LoggedUnder(ctx, beh.events)
              look   == Lookup(stored, flagKey, userId)
          IN  /\ assignmentLoggerCalled' = (beh.events # <<>>)
              /\ currentRequest' = ContextOnReturn(beh.throws, ctx)
              /\ recentAssignments' = IF beh.throws THEN stored ELSE look.map
              /\ lastCall' =
                   IF beh.throws
                   THEN CallRecord(flagKey, userId, userAttributes, TRUE, CaughtReturn,
                                   logged, <<>>, recentAssignments, stored)
                   ELSE CallRecord(flagKey, userId, userAttributes, FALSE,
                                   NormalReturn(flagKey, userId, beh.result, look,
                                                beh.events # <<>>),
                                   logged, look.hit, recentAssignments, look.map)
              /\ UNCHANGED <<client, initialized>>
  /\ insertionOrder' = OrderAfter(insertionOrder, recentAssignments, recentAssignments')
  /\ heldReturns' =
       IF IsHeld(flagKey, userId, userAttributes)
       THEN heldReturns \cup
              {[assignment  |-> lastCall'.returned.assignment,
                initialized |-> ~NotInitialized(client, initialized),
                repeated    |-> \E r \in heldReturns : r.initialized,
                afterOther  |-> /\ lastCall.returned.path # "none"
                                /\ ~IsHeld(lastCall.flagKey, lastCall.userId,
                                           lastCall.userAttributes)]}
       ELSE heldReturns

(***************************************************************************)
(* EppoService.initializeEppo, called once and not awaited at start-up.    *)
(***************************************************************************)
\* Variant of InitializeEppo that calls EppoSdk.init without testing
\* EPPO_SDK_KEY.
InitializeEppoNoKeyCheck ==
  /\ initPc = "idle"
  /\ initPc' = "awaiting"
  /\ UNCHANGED <<client, initialized, recentAssignments, assignmentLoggerCalled,
                 currentRequest, env, serviceVars, lastCall, held, heldReturns,
                 insertionOrder, serverVars>>

\* Up to `await EppoSdk.init(...)`; without EPPO_SDK_KEY it throws at once.
InitializeEppo ==
  /\ initPc = "idle"
  /\ IF env.EPPO_SDK_KEY
     THEN initPc' = "awaiting" /\ UNCHANGED initialized
     ELSE initPc' = "rejected" /\ initialized' = FALSE
  /\ UNCHANGED <<client, recentAssignments, assignmentLoggerCalled, currentRequest,
                 env, serviceVars, lastCall, held, heldReturns, insertionOrder, serverVars>>

\* EppoSdk.init settles: it rejects, or it resolves and the rest of the try
\* block runs, which sets this.client and then either completes or throws
\* while switching the SDK's own cache off.
InitOutcomes == {"resolved", "rejected", "threwAfterGetInstance"}

SdkInitSettles(outcome) ==
  /\ initPc = "awaiting"
  /\ client' = (outcome # "rejected")
  /\ initialized' = (outcome = "resolved")
  /\ initPc' = IF outcome = "resolved" THEN "resolved" ELSE "rejected"
  /\ UNCHANGED <<recentAssignments, assignmentLoggerCalled, currentRequest,
                 env, serviceVars, lastCall, held, heldReturns, insertionOrder, serverVars>>

(***************************************************************************)
(* Direct calls of the tracker (the /get-assignment and /track-event       *)
(* handlers and any other caller of the exported service object).          *)
(***************************************************************************)
CallGetAssignment(flagKeyInputs, attrInputs) ==
  \E flagKey \in flagKeyInputs, userId \in UserInputs, userAttributes \in attrInputs :
    \E beh \in Evaluations(flagKey, userId, userAttributes) :
      /\ initPc # "idle"
      /\ getAssignment(flagKey, userId, userAttributes, beh)
      /\ UNCHANGED <<initPc, env, serviceVars, held, serverVars>>

\* The same with a provider whose events carry neither flagKey nor subject.
CallGetAssignmentBare ==
  \E userId \in UserInputs : \E beh \in BareEventBehaviours(ExperimentFlagKey, userId) :
    /\ initPc # "idle"
    /\ getAssignment(ExperimentFlagKey, userId, EmptyAttrs, beh)
    /\ UNCHANGED <<initPc, env, serviceVars, held, serverVars>>

\* The same with a provider that logs its event for another flag than the
\* one asked for.
CallGetAssignmentForeign ==
  \E userId \in UserInputs :
    /\ initPc # "idle"
    /\ getAssignment(ExperimentFlagKey, userId, EmptyAttrs,
                     Behaviour(FALSE, "treatment",
                               <<AssignmentEvent("other_flag", userId, "treatment")>>))
    /\ UNCHANGED <<initPc, env, serviceVars, held, serverVars>>

(***************************************************************************)
(* BrazeService: each operation first checks its configuration and throws  *)
(* when it is missing; otherwise it issues one POST, which succeeds or     *)
(* fails.  Every operation is async, so its caller resumes in a later turn *)
(* in either case.                                                         *)
(***************************************************************************)
\* if (!this.apiKey || !this.restEndpoint) throw
UpdateUserAttributesPosts(e) == e.BRAZE_CONFIGURED

\* if (!this.apiKey || !this.restEndpoint || !campaignId) throw
TriggerCampaignPosts(e, campaignId) == e.BRAZE_CONFIGURED /\ Truthy(campaignId)

(***************************************************************************)
(* JavaScript values and objects as the two services build and read them:  *)
(* a value is a tagged string, an object a function from its own keys.     *)
(***************************************************************************)
JUndefined == [t |-> "undefined", s |-> ""]
JNull == [t |-> "null", s |-> ""]
JBool(b) == [t |-> "boolean", s |-> IF b THEN "true" ELSE "false"]
JStr(x) == [t |-> "string", s |-> x]
JNum(n) == [t |-> "number", s |-> ToString(n)]

\* What `||` and `if` take for true.
JTruthy(v) ==
  ~(v.t \in {"undefined", "null"} \/ v = JBool(FALSE) \/ v = JStr("") \/ v = JNum(0))

\* {}
EmptyObject == [k \in {} |-> JUndefined]

\* { k: v }
Prop(k, v) == [x \in {k} |-> v]

\* { ...a, ...b }
Spread(a, b) == [k \in DOMAIN a \cup DOMAIN b |-> IF k \in DOMAIN b THEN b[k] ELSE a[k]]

\* o.k
Get(o, k) == IF k \in DOMAIN o THEN o[k] ELSE JUndefined

\* a || b || ... || z: the first truthy operand, else the last.
RECURSIVE OrChain(_)
OrChain(vs) ==
  IF Len(vs) = 1 \/ JTruthy(Head(vs)) THEN Head(vs) ELSE OrChain(Tail(vs))

\* Variant of RemoveUndefined that deletes the null entries only.
RemoveNullOnly(o) ==
  [k \in {x \in DOMAIN o : o[x].t # "null"} |-> o[k]]

\* Object.keys(o).forEach(key => { if (o[key] === undefined || o[key] === null)
\* delete o[key] })
RemoveUndefined(o) ==
  [k \in {x \in DOMAIN o : o[x].t \notin {"undefined", "null"}} |-> o[k]]

(***************************************************************************)
(* EppoService.getBooleanAssignment and getNumericAssignment.  The SDK's   *)
(* typed call throws, or returns the default it was given, or returns a    *)
(* value of the type; like getStringAssignment it may call logAssignment   *)
(* when it computed a value.                                               *)
(***************************************************************************)
TypedKinds == {"boolean", "numeric"}

TypedValues(kind) ==
  IF kind = "boolean" THEN {JBool(TRUE), JBool(FALSE)} ELSE {JNum(0), JNum(5)}

\* The parameter's own default: defaultValue = false, defaultValue = 0.
BuiltInDefault(kind) == IF kind = "boolean" THEN JBool(FALSE) ELSE JNum(0)

TypedBehaviours(kind, flagKey, userId, defaultValue) ==
  {Behaviour(TRUE, defaultValue, <<>>), Behaviour(FALSE, defaultValue, <<>>)}
    \cup UNION {{Behaviour(FALSE, v, e) :
                   e \in {<<>>, <<AssignmentEvent(Undefined, Undefined, "on")>>}} :
                v \in TypedValues(kind)}

\* Variant of TypedReturn whose catch block returns the parameter's own
\* default.
TypedReturnBuiltInDefault(kind, notInitialized, beh, defaultValue) ==
  IF notInitialized THEN [path |-> "uninitialized", value |-> defaultValue]
  ELSE IF beh.throws THEN [path |-> "caught", value |-> BuiltInDefault(kind)]
  ELSE [path |-> "returned", value |-> beh.result]

\* What the two functions return: defaultValue from the guard and from the
\* catch block, the SDK's value otherwise.
TypedReturn(kind, notInitialized, beh, defaultValue) ==
  IF notInitialized THEN [path |-> "uninitialized", value |-> defaultValue]
  ELSE IF beh.throws THEN [path |-> "caught", value |-> defaultValue]
  ELSE [path |-> "returned", value |-> beh.result]

\* Before any typed call.
NoTypedCall ==
  [tick |-> 0, kind |-> "none", defaultValue |-> JUndefined, providerCalled |-> FALSE,
   threw |-> FALSE, result |-> JUndefined,
   returned |-> [path |-> "none", value |-> JUndefined], logged |-> <<>>]

\* getBooleanAssignment / getNumericAssignment(flagKey, userId,
\* userAttributes, defaultValue): neither sets currentRequest nor resets
\* assignmentLoggerCalled, so an event the SDK logs during the call is
\* stored under the key logAssignment builds from the event and whatever
\* currentRequest holds.
getTypedAssignment(kind, flagKey, userId, userAttributes, defaultValue, beh) ==
  LET notInitialized == NotInitialized(client, initialized)
      events == IF notInitialized THEN <<>> ELSE beh.events
  IN  /\ recentAssignments' = LogAll(recentAssignments, currentRequest, events)
      /\ insertionOrder' = OrderAfter(insertionOrder, recentAssignments, recentAssignments')
      /\ assignmentLoggerCalled' = (assignmentLoggerCalled \/ events # <<>>)
      /\ typedCall' =
           [tick |-> 1 - typedCall.tick, kind |-> kind, defaultValue |-> defaultValue,
            providerCalled |-> ~notInitialized,
            threw |-> ~notInitialized /\ beh.throws,
            result |-> IF notInitialized THEN JUndefined ELSE beh.result,
            returned |-> TypedReturn(kind, notInitialized, beh, defaultValue),
            logged |-> LoggedUnder(currentRequest, events)]
      /\ UNCHANGED <<client, initialized, currentRequest>>

CallTypedAssignment ==
  \E kind \in TypedKinds, userId \in UserInputs :
    \E defaultValue \in TypedValues(kind) :
      \E beh \in TypedBehaviours(kind, ExperimentFlagKey, userId, defaultValue) :
        /\ initPc # "idle"
        /\ getTypedAssignment(kind, ExperimentFlagKey, userId, EmptyAttrs, defaultValue, beh)
        /\ UNCHANGED <<initPc, env, lastCall, held, heldReturns, serverVars, braze,
                       enrichment>>

(***************************************************************************)
(* HightouchService.  What axios.get does is an outcome: a response with   *)
(* the user's record, a 404, or any other failure (5xx, network error, the *)
(* 5 second timeout elapsing, a response without data); a record is        *)
(* [_audiences, lifetime_value, churn_risk, tier, subscription_status,     *)
(* custom_attributes], _audiences a sequence that is empty when the field  *)
(* is absent.                                                              *)
(***************************************************************************)
\* return { audiences: {}, attributes: {} }
UnconfiguredResult ==
  [audiences |-> EmptyObject, attributes |-> EmptyObject, found |-> JUndefined,
   error |-> <<>>]

\* return { audiences: {}, attributes: {}, found: false }
NotFoundResult ==
  [audiences |-> EmptyObject, attributes |-> EmptyObject, found |-> JBool(FALSE),
   error |-> <<>>]

\* return { audiences: {}, attributes: {}, found: false, error: error.message }
ErrorResult(message) ==
  [audiences |-> EmptyObject, attributes |-> EmptyObject, found |-> JBool(FALSE),
   error |-> <<message>>]

\* return { audiences, attributes, found: true }
FoundResult(userData) ==
  [audiences |-> IF userData._audiences = <<>> THEN EmptyObject ELSE userData._audiences[1],
   attributes |->
     Spread([lifetime_value |-> userData.lifetime_value,
             churn_risk |-> userData.churn_risk,
             tier |-> userData.tier,
             subscription_status |-> userData.subscription_status],
            userData.custom_attributes),
   found |-> JBool(TRUE),
   error |-> <<>>]

\* getUserAudiences after axios.get settled.
GetUserAudiences(outcome) ==
  CASE outcome.kind = "response"  -> FoundResult(outcome.data[1])
    [] outcome.kind = "status404" -> NotFoundResult
    [] OTHER                      -> ErrorResult(outcome.kind)

\* Variant of InAudience that takes any truthy mark for membership.
InAudienceTruthy(audiences, name) ==
  JBool(JTruthy(Get(audiences, name)))

\* audiences.name === true
InAudience(audiences, name) ==
  JBool(Get(audiences, name) = JBool(TRUE))

\* getEnrichedUserAttributes, the branch with Hightouch data.
FoundAttributes(lookup, existingAttributes) ==
  Spread(Spread(existingAttributes, lookup.attributes),
         [premium_subscriber |-> InAudience(lookup.audiences, "premium_subscriber"),
          high_value_customer |-> InAudience(lookup.audiences, "high_value_customer"),
          at_risk_churn |-> InAudience(lookup.audiences, "at_risk_churn")])

\* Variant of FallbackAttributes that reads the tier from subscription_tier
\* only.
FallbackAttributesSnakeCaseOnly(e) ==
  LET premium == JBool(Get(e, "subscription_tier") = JStr("premium"))
      free == JBool(Get(e, "subscription_tier") = JStr("free"))
  IN  Spread(e,
        [premium_subscriber |->
           OrChain(<<Get(e, "premium_subscriber"), Get(e, "isPremium"), premium,
                     JBool(FALSE)>>),
         high_value_customer |->
           OrChain(<<Get(e, "high_value_customer"), Get(e, "isHighValue"), premium,
                     JBool(FALSE)>>),
         at_risk_churn |->
           OrChain(<<Get(e, "at_risk_churn"), Get(e, "isAtRisk"), free, JBool(FALSE)>>),
         subscription_tier |->
           OrChain(<<Get(e, "subscription_tier"), Get(e, "subscriptionTier"),
                     Get(e, "tier")>>),
         user_segment |-> OrChain(<<Get(e, "user_segment"), Get(e, "segment")>>),
         country |-> Get(e, "country"),
         device_type |-> Get(e, "device_type"),
         _attribute_source |-> JStr("browser")])

\* getEnrichedUserAttributes, the branch without Hightouch data.
FallbackAttributes(e) ==
  LET premiumSnake == JBool(Get(e, "subscription_tier") = JStr("premium"))
      premiumCamel == JBool(Get(e, "subscriptionTier") = JStr("premium"))
      freeSnake == JBool(Get(e, "subscription_tier") = JStr("free"))
      freeCamel == JBool(Get(e, "subscriptionTier") = JStr("free"))
  IN  Spread(e,
        [premium_subscriber |->
           OrChain(<<Get(e, "premium_subscriber"), Get(e, "isPremium"), premiumSnake,
                     premiumCamel, JBool(FALSE)>>),
         high_value_customer |->
           OrChain(<<Get(e, "high_value_customer"), Get(e, "isHighValue"), premiumSnake,
                     premiumCamel, JBool(FALSE)>>),
         at_risk_churn |->
           OrChain(<<Get(e, "at_risk_churn"), Get(e, "isAtRisk"), freeSnake, freeCamel,
                     JBool(FALSE)>>),
         subscription_tier |->
           OrChain(<<Get(e, "subscription_tier"), Get(e, "subscriptionTier"),
                     Get(e, "tier")>>),
         user_segment |-> OrChain(<<Get(e, "user_segment"), Get(e, "segment")>>),
         country |-> Get(e, "country"),
         device_type |-> Get(e, "device_type"),
         _attribute_source |-> JStr("browser")])

\* found && Object.keys(audiences).length > 0
UsesHightouchData(lookup) == JTruthy(lookup.found) /\ DOMAIN lookup.audiences # {}

\* getEnrichedUserAttributes after getUserAudiences returned.
GetEnrichedUserAttributes(lookup, existingAttributes) ==
  RemoveUndefined(IF UsesHightouchData(lookup)
                  THEN FoundAttributes(lookup, existingAttributes)
                  ELSE FallbackAttributes(existingAttributes))

\* The attributes callers hold, one name and value each.
AttributePool ==
  { <<"premium_subscriber", JBool(TRUE)>>, <<"premium_subscriber", JBool(FALSE)>>,
    <<"premium_subscriber", JStr("yes")>>, <<"isPremium", JBool(TRUE)>>,
    <<"subscription_tier", JStr("premium")>>, <<"subscription_tier", JStr("free")>>,
    <<"subscription_tier", JStr("basic")>>, <<"subscriptionTier", JStr("premium")>>,
    <<"subscriptionTier", JStr("free")>>, <<"high_value_customer", JBool(TRUE)>>,
    <<"isHighValue", JBool(TRUE)>>, <<"at_risk_churn", JBool(TRUE)>>,
    <<"at_risk_churn", JNull>>, <<"isAtRisk", JBool(TRUE)>>, <<"tier", JStr("gold")>>,
    <<"segment", JStr("vip")>>, <<"country", JStr("US")>>, <<"country", JNull>>,
    <<"lifetime_value", JNum(100)>>, <<"_attribute_source", JStr("browser")>> }

\* The objects of at most n attributes.
RECURSIVE ObjectsUpTo(_)
ObjectsUpTo(n) ==
  IF n = 0 THEN {EmptyObject}
  ELSE LET smaller == ObjectsUpTo(n - 1)
       IN  smaller \cup {Spread(o, Prop(p[1], p[2])) : o \in smaller, p \in AttributePool}

MaxAttributes == 2

ExistingAttributeObjects == ObjectsUpTo(MaxAttributes)

\* The records the provider holds.
ProviderRecords ==
  [_audiences : { <<>>, <<EmptyObject>>,
                  <<Prop("premium_subscriber", JBool(TRUE))>>,
                  <<Prop("premium_subscriber", JBool(FALSE))>>,
                  <<Prop("premium_subscriber", JStr("true"))>>,
                  <<Spread(Prop("high_value_customer", JBool(TRUE)),
                           Prop("at_risk_churn", JBool(TRUE)))>>,
                  <<Prop("newsletter", JBool(TRUE))>> },
   lifetime_value : {JUndefined, JNum(250)},
   churn_risk : {JUndefined},
   tier : {JUndefined, JStr("platinum")},
   subscription_status : {JUndefined},
   custom_attributes : {EmptyObject, Prop("country", JStr("DE"))}]

LookupOutcomes ==
  {[kind |-> "response", data |-> <<d>>] : d \in ProviderRecords}
    \cup {[kind |-> k, data |-> <<>>] : k \in {"status404", "failed", "timeout"}}

\* getEnrichedUserAttributes(userId, existingAttributes) is called: without
\* HIGHTOUCH_API_KEY getUserAudiences returns at once, otherwise it awaits
\* axios.get.
EnrichCalled(userId, existingAttributes) ==
  /\ enrichment.call = <<>>
  /\ enrichment' = [enrichment EXCEPT !.call =
       IF ~enrichment.apiKey
       THEN <<[userId |-> userId, existingAttributes |-> existingAttributes,
               pc |-> "returned", outcome |-> <<>>,
               result |-> <<GetEnrichedUserAttributes(UnconfiguredResult,
                                                      existingAttributes)>>]>>
       ELSE <<[userId |-> userId, existingAttributes |-> existingAttributes,
               pc |-> "awaiting", outcome |-> <<>>, result |-> <<>>]>>]
  /\ UNCHANGED <<trackerVars, initPc, env, lastCall, held, heldReturns, insertionOrder,
                 serverVars, braze, typedCall>>

\* Variant of LookupSettles that lets a failure other than 404 out of
\* getUserAudiences.
LookupSettlesRethrows(outcome) ==
  /\ enrichment.call # <<>>
  /\ enrichment.call[1].pc = "awaiting"
  /\ enrichment' = [enrichment EXCEPT !.call =
       IF outcome.kind \in {"failed", "timeout"}
       THEN <<[enrichment.call[1] EXCEPT !.pc = "threw", !.outcome = <<outcome>>]>>
       ELSE <<[enrichment.call[1] EXCEPT
                 !.pc = "returned",
                 !.outcome = <<outcome>>,
                 !.result = <<GetEnrichedUserAttributes(GetUserAudiences(outcome),
                                enrichment.call[1].existingAttributes)>>]>>]
  /\ UNCHANGED <<trackerVars, initPc, env, lastCall, held, heldReturns, insertionOrder,
                 serverVars, braze, typedCall>>

\* axios.get settles: getUserAudiences returns and getEnrichedUserAttributes
\* runs to its return.
LookupSettles(outcome) ==
  /\ enrichment.call # <<>>
  /\ enrichment.call[1].pc = "awaiting"
  /\ enrichment' = [enrichment EXCEPT !.call =
       <<[enrichment.call[1] EXCEPT
            !.pc = "returned",
            !.outcome = <<outcome>>,
            !.result = <<GetEnrichedUserAttributes(GetUserAudiences(outcome),
                           enrichment.call[1].existingAttributes)>>]>>]
  /\ UNCHANGED <<trackerVars, initPc, env, lastCall, held, heldReturns, insertionOrder,
                 serverVars, braze, typedCall>>

\* The caller resumes.
EnrichCallEnds ==
  /\ enrichment.call # <<>>
  /\ enrichment.call[1].pc \in {"returned", "threw"}
  /\ enrichment' = [enrichment EXCEPT !.call = <<>>]
  /\ UNCHANGED <<trackerVars, initPc, env, lastCall, held, heldReturns, insertionOrder,
                 serverVars, braze, typedCall>>

(***************************************************************************)
(* BrazeService called directly: the five operations.  The arguments of a  *)
(* call are [userId, attributes, id, properties, name]: the user, the      *)
(* attributes object (attributes, userAttributes, customAttributes), the   *)
(* campaign or canvas id, the properties object (triggerProperties,        *)
(* eventProperties, canvasEntryProperties) and the event name or message   *)
(* type.                                                                   *)
(***************************************************************************)
BrazeOperations ==
  {"sendMessage", "trackEvent", "updateUserAttributes", "triggerCampaign", "triggerCanvas"}

\* Variant of ConfigurationMissing that tests the API key only.
ConfigurationMissingApiKeyOnly(b, op, args) ==
  \/ ~b.apiKey
  \/ op = "triggerCampaign" /\ ~Truthy(args.id)

\* if (!this.apiKey || !this.restEndpoint) throw, and for triggerCampaign
\* if (!this.apiKey || !this.restEndpoint || !campaignId) throw
ConfigurationMissing(b, op, args) ==
  \/ ~b.apiKey
  \/ ~b.restEndpoint
  \/ op = "triggerCampaign" /\ ~Truthy(args.id)

\* email_subscribe: 'subscribed', push_subscribe: 'subscribed'
Subscribed ==
  Spread(Prop("email_subscribe", JStr("subscribed")),
         Prop("push_subscribe", JStr("subscribed")))

\* updateUserAttributes: attributeData
AttributeData(args) ==
  [attributes |->
     <<Spread(Spread(Prop("external_id", JStr(args.userId)), Subscribed), args.attributes)>>]

\* triggerCampaign: campaignData
CampaignData(args) ==
  [campaign_id |-> args.id,
   recipients |->
     <<[external_user_id |-> args.userId,
        trigger_properties |-> args.properties,
        attributes |-> Spread(Subscribed, args.attributes)]>>]

\* trackEvent: eventData (without the time stamp)
EventData(args) ==
  [attributes |-> <<Spread(Prop("external_id", JStr(args.userId)), args.attributes)>>,
   events |-> <<[external_id |-> args.userId, name |-> args.name,
                 properties |-> args.properties]>>]

\* sendMessage: messageData (the alert without its emoji)
MessageData(args) ==
  [external_user_ids |-> <<args.userId>>,
   messages |->
     [push |-> [alert |-> IF args.name = "treatment" THEN "Special offer just for you!"
                          ELSE "Welcome to our app!",
                title |-> IF args.name = "treatment" THEN "Exclusive Deal" ELSE "Welcome",
                extra |-> Spread(Prop("variant", JStr(args.name)), args.attributes)]]]

\* triggerCanvas: canvasData
CanvasData(args) ==
  [canvas_id |-> args.id,
   recipients |-> <<[external_user_id |-> args.userId,
                     canvas_entry_properties |-> args.properties]>>]

\* The axios.post an operation issues: the path under restEndpoint and the
\* data.
BrazeRequest(op, args) ==
  CASE op = "sendMessage"          -> [path |-> "/messages/send", data |-> MessageData(args)]
    [] op = "trackEvent"           -> [path |-> "/users/track", data |-> EventData(args)]
    [] op = "updateUserAttributes" -> [path |-> "/users/track", data |-> AttributeData(args)]
    [] op = "triggerCampaign"      -> [path |-> "/campaigns/trigger/send",
                                       data |-> CampaignData(args)]
    [] op = "triggerCanvas"        -> [path |-> "/canvas/trigger/send",
                                       data |-> CanvasData(args)]

\* The attribute and property objects callers pass.
AttributeObjects ==
  { EmptyObject,
    Prop("eppo_gate", JBool(TRUE)),
    Prop("email_subscribe", JStr("unsubscribed")),
    Spread(Prop("push_subscribe", JStr("unsubscribed")), Prop("country", JStr("US"))) }

PropertyObjects ==
  { EmptyObject, Prop("eppo_assignment", JStr("treatment")) }

BrazeArguments ==
  [userId : {"u1"}, attributes : AttributeObjects, id : {Undefined, "campaign-1"},
   properties : PropertyObjects, name : {"treatment", "message_sent_demo"}]

\* An operation is called: it throws at once for missing configuration, or
\* builds its data and awaits axios.post.
BrazeCalled(op, args) ==
  /\ braze.call = <<>>
  /\ braze' = [braze EXCEPT !.call =
       IF ConfigurationMissing(braze, op, args)
       THEN <<[op |-> op, args |-> args, pc |-> "threw", error |-> "configuration",
               request |-> <<>>]>>
       ELSE <<[op |-> op, args |-> args, pc |-> "posting", error |-> "",
               request |-> <<BrazeRequest(op, args)>>]>>]
  /\ UNCHANGED <<trackerVars, initPc, env, lastCall, held, heldReturns, insertionOrder,
                 serverVars, enrichment, typedCall>>

\* axios.post settles: the operation returns the response or rethrows.
BrazePostSettles(ok) ==
  /\ braze.call # <<>>
  /\ braze.call[1].pc = "posting"
  /\ braze' = [braze EXCEPT !.call =
       <<[braze.call[1] EXCEPT !.pc = IF ok THEN "returned" ELSE "threw",
                               !.error = IF ok THEN "" ELSE "http"]>>]
  /\ UNCHANGED <<trackerVars, initPc, env, lastCall, held, heldReturns, insertionOrder,
                 serverVars, enrichment, typedCall>>

\* The caller resumes.
BrazeCallEnds ==
  /\ braze.call # <<>>
  /\ braze.call[1].pc \in {"returned", "threw"}
  /\ braze' = [braze EXCEPT !.call = <<>>]
  /\ UNCHANGED <<trackerVars, initPc, env, lastCall, held, heldReturns, insertionOrder,
                 serverVars, enrichment, typedCall>>

(***************************************************************************)
(* server.js: processWebhookAndSendMessage(webhookData).                   *)
(***************************************************************************)
\* A request body with none of the properties the function reads.  A
\* property that is absent reads as undefined; the two attribute objects
\* are <<>> when absent.
EmptyBody ==
  [user_id |-> Undefined, external_user_id |-> Undefined, userId |-> Undefined,
   subject |-> Undefined, user_attributes |-> <<>>, attributes |-> <<>>,
   trigger_properties |-> Undefined, eppo_variant |-> Undefined,
   eppo_flagkey |-> Undefined, eppo_flag_key |-> Undefined,
   eppo_assignment |-> Undefined]

\* What /send-message passes on: { userId, user_attributes: userAttributes }
InternalBody(userId, userAttributes) ==
  [EmptyBody EXCEPT !.userId = userId, !.user_attributes = <<userAttributes>>]

\* The body of the webhook campaign as README.md has it set up in Braze:
\* { user_id, eppo_flag_key, eppo_assignment } from the trigger properties.
WebhookCampaignBody(userId, flagKey, assignment) ==
  [EmptyBody EXCEPT !.user_id = userId, !.eppo_flag_key = flagKey,
                    !.eppo_assignment = assignment]

\* The bodies callers post to / and /webhook.
RequestBodies ==
  { InternalBody("u1", EmptyAttrs),
    EmptyBody,
    [EmptyBody EXCEPT !.external_user_id = "u1", !.trigger_properties = "[object Object]"],
    [EmptyBody EXCEPT !.user_id = "u1", !.eppo_variant = "control"],
    [EmptyBody EXCEPT !.user_id = "u1", !.eppo_flagkey = ExperimentFlagKey],
    [EmptyBody EXCEPT !.subject = "u1"] }

\* Variant of isFromBrazeWebhook without the `subject` test.
isFromBrazeWebhookNoSubject(webhookData) ==
  \/ webhookData.trigger_properties # Undefined
  \/ webhookData.eppo_variant # Undefined
  \/ webhookData.eppo_flagkey # Undefined

isFromBrazeWebhook(webhookData) ==
  \/ webhookData.trigger_properties # Undefined
  \/ webhookData.eppo_variant # Undefined
  \/ webhookData.eppo_flagkey # Undefined
  \/ webhookData.subject # Undefined

\* Variant of ExtractUserId that reads external_user_id first.
ExtractUserIdExternalFirst(webhookData) ==
  OrElse(webhookData.external_user_id,
    OrElse(webhookData.user_id,
      OrElse(webhookData.userId,
        OrElse(webhookData.subject, "unknown-user"))))

\* webhookData.user_id || .external_user_id || .userId || .subject || 'unknown-user'
ExtractUserId(webhookData) ==
  OrElse(webhookData.user_id,
    OrElse(webhookData.external_user_id,
      OrElse(webhookData.userId,
        OrElse(webhookData.subject, "unknown-user"))))

\* webhookData.user_attributes || webhookData.attributes || {}
ExtractUserAttributes(webhookData) ==
  IF webhookData.user_attributes # <<>> THEN webhookData.user_attributes[1]
  ELSE IF webhookData.attributes # <<>> THEN webhookData.attributes[1]
  ELSE EmptyAttrs

\* Variant of CampaignDecision without the placeholder test.
CampaignDecisionNoPlaceholder(campaignId) ==
  IF Truthy(campaignId) THEN "trigger" ELSE "unset"

\* if (campaignId && campaignId.includes('your_')) skip
\* else if (campaignId) trigger  else skip
CampaignDecision(campaignId) ==
  IF Truthy(campaignId) /\ Includes(campaignId, "your_") THEN "placeholder"
  ELSE IF Truthy(campaignId) THEN "trigger"
  ELSE "unset"

\* { eppo_flag_key: flagKey, eppo_assignment: assignment }
TriggerProperties(flagKey, assignment) ==
  [eppo_flag_key |-> flagKey, eppo_assignment |-> assignment]

\* Variant of MessagePreview that takes every other non-empty string for
\* the treatment.
MessagePreviewTruthy(assignment) ==
  IF assignment = "control"
  THEN [type |-> "CONTROL", subject |-> "Your Weekly Update",
        message_variation_id |-> "control_variation"]
  ELSE IF Truthy(assignment)
  THEN [type |-> "TREATMENT", subject |-> "Special Offer - Treatment Version!",
        message_variation_id |-> "treatment_variation"]
  ELSE [type |-> "DEFAULT", subject |-> "Hello from our integration!",
        message_variation_id |-> "default_variation"]

\* let messagePreview; if (assignment === 'treatment') .. else if (.. === 'control') .. else ..
MessagePreview(assignment) ==
  IF assignment = "treatment"
  THEN [type |-> "TREATMENT", subject |-> "Special Offer - Treatment Version!",
        message_variation_id |-> "treatment_variation"]
  ELSE IF assignment = "control"
  THEN [type |-> "CONTROL", subject |-> "Your Weekly Update",
        message_variation_id |-> "control_variation"]
  ELSE [type |-> "DEFAULT", subject |-> "Hello from our integration!",
        message_variation_id |-> "default_variation"]

\* The number of requests the model follows.
MaxRequests == 2

\* One invocation, from its first synchronous stretch up to the await of
\* brazeService.updateUserAttributes.
Invocation(origin, webhookData) ==
  [pc |-> "gate", origin |-> origin, body |-> webhookData,
   isFromBrazeWebhook |-> isFromBrazeWebhook(webhookData),
   userId |-> ExtractUserId(webhookData),
   userAttributes |-> ExtractUserAttributes(webhookData),
   posted |-> UpdateUserAttributesPosts(env),
   flagKey |-> Undefined, assignment |-> Undefined, resolved |-> FALSE,
   attempts |-> 0, triggerProperties |-> <<>>, result |-> <<>>]

\* The invocations in flight are a bag: the event loop does not order them.
InFlight == BagToSet(inv)
Replace(r, s) == (inv (-) SetToBag({r})) (+) SetToBag({s})

\* A caller posts a request.
ReceiveRequest ==
  \E body \in RequestBodies :
    /\ initPc # "idle"
    /\ callerRequests + brazeRequests < MaxRequests
    /\ inv' = inv (+) SetToBag({Invocation("caller", body)})
    /\ callerRequests' = callerRequests + 1
    /\ UNCHANGED <<trackerVars, initPc, env, serviceVars, lastCall, held, heldReturns, insertionOrder,
                   pendingWebhooks, brazeRequests, triggerCalls>>

\* The bodies that differ in which of the four identifying fields and of
\* the two attribute fields they carry; "" is a field a template rendered
\* empty.
IdentifyingBodies ==
  {[EmptyBody EXCEPT !.user_id = a, !.external_user_id = b, !.userId = c, !.subject = d] :
     a \in {Undefined, "", "id-a"}, b \in {Undefined, "id-b"}, c \in {Undefined, "id-c"},
     d \in {Undefined, "id-d"}}
  \cup {[EmptyBody EXCEPT !.userId = "u1", !.user_attributes = x, !.attributes = y] :
          x \in {<<>>, <<Attrs("premium")>>}, y \in {<<>>, <<Attrs("free")>>}}

\* A caller posts one of them while no other request is running.
ReceiveIdentifyingRequest ==
  \E body \in IdentifyingBodies :
    /\ initPc # "idle"
    /\ inv = EmptyBag
    /\ callerRequests + brazeRequests < MaxRequests
    /\ inv' = inv (+) SetToBag({Invocation("caller", body)})
    /\ callerRequests' = callerRequests + 1
    /\ UNCHANGED <<trackerVars, initPc, env, serviceVars, lastCall, held, heldReturns, insertionOrder,
                   pendingWebhooks, brazeRequests, triggerCalls>>

\* One body that triggers the campaign and one that does not.
LiveBodies == {InternalBody("u1", EmptyAttrs), [EmptyBody EXCEPT !.subject = "u1"]}

\* A caller posts one of them, whatever else is running.
ReceiveLiveRequest ==
  \E body \in LiveBodies :
    /\ initPc # "idle"
    /\ callerRequests + brazeRequests < MaxRequests
    /\ inv' = inv (+) SetToBag({Invocation("caller", body)})
    /\ callerRequests' = callerRequests + 1
    /\ UNCHANGED <<trackerVars, initPc, env, serviceVars, lastCall, held, heldReturns, insertionOrder,
                   pendingWebhooks, brazeRequests, triggerCalls>>

\* What /send-message passes on for user u1, with and without a
\* subscription tier among the attributes.
TargetedBodies == {InternalBody("u1", a) : a \in AttrInputs}

\* A caller posts one of them, whatever else is running.
ReceiveTargetedRequest ==
  \E body \in TargetedBodies :
    /\ initPc # "idle"
    /\ callerRequests + brazeRequests < MaxRequests
    /\ inv' = inv (+) SetToBag({Invocation("caller", body)})
    /\ callerRequests' = callerRequests + 1
    /\ UNCHANGED <<trackerVars, initPc, env, serviceVars, lastCall, held, heldReturns, insertionOrder,
                   pendingWebhooks, brazeRequests, triggerCalls>>

\* Braze sends the webhook of a triggered campaign.
BrazeSendsWebhook ==
  \E w \in pendingWebhooks :
    /\ callerRequests + brazeRequests < MaxRequests
    /\ inv' = inv (+) SetToBag({Invocation("braze",
                 WebhookCampaignBody(w.userId, w.triggerProperties.eppo_flag_key,
                                     w.triggerProperties.eppo_assignment))})
    /\ pendingWebhooks' = pendingWebhooks \ {w}
    /\ brazeRequests' = brazeRequests + 1
    /\ UNCHANGED <<trackerVars, initPc, env, serviceVars, lastCall, held, heldReturns, insertionOrder,
                   callerRequests, triggerCalls>>

\* The aggregate processWebhookAndSendMessage returns, without the details
\* record and the timestamp it passes through from getAssignment.
Aggregate(userId, assignment, flagKey) ==
  [userId |-> userId, eppoAssignment |-> assignment, flagKey |-> flagKey,
   messagePreview |-> MessagePreview(assignment)]

\* The stretch from getAssignment to the await of triggerCampaign or, when
\* no campaign is triggered, to the return.
ResolveAndDispatch(r, beh) ==
  LET flagKey    == ExperimentFlagKey
      campaignId == env.BRAZE_WEBHOOK_CAMPAIGN_ID
  IN  /\ getAssignment(flagKey, r.userId, r.userAttributes, beh)
      /\ LET assignment == lastCall'.returned.assignment
             triggers   == ~r.isFromBrazeWebhook /\ CampaignDecision(campaignId) = "trigger"
         IN  /\ inv' = Replace(r,
                   IF triggers
                   THEN [r EXCEPT !.pc = "trigger", !.flagKey = flagKey,
                                  !.assignment = assignment, !.resolved = TRUE,
                                  !.posted = TriggerCampaignPosts(env, campaignId),
                                  !.attempts = r.attempts + 1,
                                  !.triggerProperties =
                                     <<TriggerProperties(flagKey, assignment)>>]
                   ELSE [r EXCEPT !.pc = "done", !.flagKey = flagKey,
                                  !.assignment = assignment, !.resolved = TRUE,
                                  !.result = <<Aggregate(r.userId, assignment, flagKey)>>])
             /\ triggerCalls' = IF triggers THEN triggerCalls + 1 ELSE triggerCalls
      /\ UNCHANGED <<initPc, env, serviceVars, held, pendingWebhooks, callerRequests, brazeRequests>>

\* Variant of GateSettles that waits for updateUserAttributes to succeed.
GateSettlesWaitsForSuccess(r, ok, beh) ==
  /\ r \in InFlight
  /\ r.pc = "gate"
  /\ r.posted
  /\ ok
  /\ ResolveAndDispatch(r, beh)

\* Variant of GateSettles in which a failed updateUserAttributes rejects
\* the invocation.
GateSettlesRethrows(r, ok, beh) ==
  /\ r \in InFlight
  /\ r.pc = "gate"
  /\ ok => r.posted
  /\ IF ok
     THEN ResolveAndDispatch(r, beh)
     ELSE /\ inv' = inv (-) SetToBag({r})
          /\ UNCHANGED <<trackerVars, initPc, env, serviceVars, lastCall, held, heldReturns,
                         insertionOrder, pendingWebhooks, callerRequests, brazeRequests,
                         triggerCalls>>

\* Variant of GateSettles in which an exception of the provider call leaves
\* getAssignment and rejects the invocation.
GateSettlesProviderThrows(r, ok, beh) ==
  /\ r \in InFlight
  /\ r.pc = "gate"
  /\ ok => r.posted
  /\ IF beh.throws /\ ~NotInitialized(client, initialized)
     THEN /\ getAssignment(ExperimentFlagKey, r.userId, r.userAttributes, beh)
          /\ inv' = inv (-) SetToBag({r})
          /\ UNCHANGED <<initPc, env, serviceVars, held, pendingWebhooks, callerRequests, brazeRequests,
                         triggerCalls>>
     ELSE ResolveAndDispatch(r, beh)

\* updateUserAttributes settled, well (ok) or not: its failure is logged and
\* swallowed, and the invocation goes on either way.
GateSettles(r, ok, beh) ==
  /\ r \in InFlight
  /\ r.pc = "gate"
  /\ ok => r.posted
  /\ ResolveAndDispatch(r, beh)

\* Variant of Returns that takes the assignment of the latest getAssignment
\* call of the process.
ReturnsLatestAssignment(r) ==
  [r EXCEPT !.pc = "done",
            !.result = <<Aggregate(r.userId, lastCall.returned.assignment, r.flagKey)>>]

\* The invocation once it has returned its aggregate.
Returns(r) ==
  [r EXCEPT !.pc = "done", !.result = <<Aggregate(r.userId, r.assignment, r.flagKey)>>]

\* Variant of TriggerSettles that calls triggerCampaign once more after a
\* failure.
TriggerSettlesRetries(r, ok) ==
  /\ r \in InFlight
  /\ r.pc = "trigger"
  /\ ok => r.posted
  /\ inv' = Replace(r, IF ok \/ r.attempts >= 2 THEN Returns(r)
                       ELSE [r EXCEPT !.attempts = r.attempts + 1])
  /\ triggerCalls' = IF ok \/ r.attempts >= 2 THEN triggerCalls ELSE triggerCalls + 1
  /\ pendingWebhooks' =
       IF ok
       THEN pendingWebhooks \cup
              {[userId |-> r.userId, triggerProperties |-> r.triggerProperties[1]]}
       ELSE pendingWebhooks
  /\ UNCHANGED <<trackerVars, initPc, env, serviceVars, lastCall, held, heldReturns, insertionOrder,
                 callerRequests, brazeRequests>>

\* triggerCampaign settled, well (ok) or not: its failure is logged and
\* swallowed, and the stretch to the return follows.  A campaign that was
\* triggered makes Braze send its webhook.
TriggerSettles(r, ok) ==
  /\ r \in InFlight
  /\ r.pc = "trigger"
  /\ ok => r.posted
  /\ inv' = Replace(r, Returns(r))
  /\ pendingWebhooks' =
       IF ok
       THEN pendingWebhooks \cup
              {[userId |-> r.userId, triggerProperties |-> r.triggerProperties[1]]}
       ELSE pendingWebhooks
  /\ UNCHANGED <<trackerVars, initPc, env, serviceVars, lastCall, held, heldReturns, insertionOrder,
                 callerRequests, brazeRequests, triggerCalls>>

\* The handler resumes with the aggregate and sends the response; nothing
\* of the request is kept.
Respond(r) ==
  /\ r \in InFlight
  /\ r.pc = "done"
  /\ inv' = inv (-) SetToBag({r})
  /\ UNCHANGED <<trackerVars, initPc, env, serviceVars, lastCall, held, heldReturns, insertionOrder,
                 pendingWebhooks, callerRequests, brazeRequests, triggerCalls>>

\* The two services right after construction, with no call made on them.
ServicesIdle ==
  /\ braze = [apiKey |-> env.BRAZE_CONFIGURED, restEndpoint |-> env.BRAZE_CONFIGURED,
              call |-> <<>>]
  /\ enrichment = [apiKey |-> FALSE, call |-> <<>>]
  /\ typedCall = NoTypedCall

ServerIdle ==
  /\ inv = EmptyBag
  /\ pendingWebhooks = {}
  /\ callerRequests = 0
  /\ brazeRequests = 0
  /\ triggerCalls = 0

(***************************************************************************)
(* Start states.                                                           *)
(***************************************************************************)
\* The Map after getAssignment ran for the users of `first` and then for
\* n users f1..fn, each call with ExperimentFlagKey and logging a complete
\* event.
FillerUser(i) == "f" \o ToString(i)
ServedEntry(userId) ==
  [key   |-> AssignmentKey(userId, ExperimentFlagKey),
   value |-> AssignmentToStore(AssignmentEvent(ExperimentFlagKey, userId, "control"),
                               ExperimentFlagKey)]
Prefill(first, n) ==
  [i \in 1..Len(first) |-> ServedEntry(first[i])] \o [i \in 1..n |-> ServedEntry(FillerUser(i))]

DefaultEnv ==
  [EPPO_SDK_KEY |-> TRUE, BRAZE_CONFIGURED |-> TRUE, BRAZE_WEBHOOK_CAMPAIGN_ID |-> "campaign-1"]

\* The constructor's state.
Fresh ==
  /\ client = FALSE
  /\ initialized = FALSE
  /\ recentAssignments = <<>>
  /\ insertionOrder = <<>>
  /\ assignmentLoggerCalled = FALSE
  /\ currentRequest = <<>>
  /\ initPc = "idle"
  /\ lastCall = NoCall

\* An initialized tracker that has served the users of `first` and n more.
Warm(first, n) ==
  /\ client = TRUE
  /\ initialized = TRUE
  /\ recentAssignments = Prefill(first, n)
  /\ insertionOrder = [i \in 1..(Len(first) + n) |-> Prefill(first, n)[i].key]
  /\ assignmentLoggerCalled = TRUE
  /\ currentRequest = <<>>
  /\ initPc = "resolved"
  /\ lastCall = NoCall

vars == <<client, initialized, recentAssignments, assignmentLoggerCalled, currentRequest,
          initPc, env, lastCall, held, heldReturns, insertionOrder,
          inv, pendingWebhooks, callerRequests, brazeRequests, triggerCalls,
          braze, enrichment, typedCall>>

\* The inputs whose evaluation may be held fixed, with the evaluation.
HeldChoices ==
  {<<[input |-> Input(f, u, a), throws |-> b.throws, result |-> b.result]>> :
     f \in {ExperimentFlagKey}, u \in UserInputs, a \in AttrInputs,
     b \in {Behaviour(FALSE, r, <<>>) : r \in Variations \cup {Null}}
           \cup {Behaviour(TRUE, Null, <<>>)}}

\* The provider's configuration changes: the held input evaluates anew.
ProviderChanges ==
  /\ held # <<>>
  /\ \E h \in HeldChoices : h[1].input = held[1].input /\ h # held /\ held' = h
  /\ heldReturns' = {}
  /\ UNCHANGED <<trackerVars, initPc, env, serviceVars, lastCall, insertionOrder, serverVars>>

InitTracker ==
  /\ \/ Fresh /\ env \in {[DefaultEnv EXCEPT !.EPPO_SDK_KEY = k] : k \in BOOLEAN}
     \/ /\ Warm(<<>>, Capacity - 1) \/ Warm(<<>>, Capacity) \/ Warm(<<"u1">>, Capacity - 1)
        /\ env = DefaultEnv
  /\ held = <<>>
  /\ heldReturns = {}
  /\ ServerIdle
  /\ ServicesIdle

NextTracker ==
  \/ InitializeEppo
  \/ \E outcome \in InitOutcomes : SdkInitSettles(outcome)
  \/ CallGetAssignment(FlagKeyInputs, {EmptyAttrs})

SpecTracker == InitTracker /\ [][NextTracker]_vars

\* The tracker from start-up, with the provider's evaluation of one input
\* held fixed between its configuration changes.
InitConsistency ==
  /\ Fresh
  /\ env = DefaultEnv
  /\ held \in HeldChoices
  /\ heldReturns = {}
  /\ ServerIdle
  /\ ServicesIdle

NextConsistency ==
  \/ InitializeEppo
  \/ \E outcome \in InitOutcomes : SdkInitSettles(outcome)
  \/ CallGetAssignment({ExperimentFlagKey}, AttrInputs)
  \/ ProviderChanges

SpecConsistency == InitConsistency /\ [][NextConsistency]_vars

\* The server from start-up, under every Braze configuration.
CampaignIds == {Undefined, "your_webhook_campaign_id_here", "campaign-1"}

Init ==
  /\ Fresh
  /\ env \in {[EPPO_SDK_KEY |-> TRUE, BRAZE_CONFIGURED |-> b, BRAZE_WEBHOOK_CAMPAIGN_ID |-> c] :
               b \in BOOLEAN, c \in CampaignIds}
  /\ held = <<>>
  /\ heldReturns = {}
  /\ ServerIdle
  /\ ServicesIdle

Next ==
  \/ InitializeEppo
  \/ \E outcome \in InitOutcomes : SdkInitSettles(outcome)
  \/ ReceiveRequest
  \/ BrazeSendsWebhook
  \/ \E r \in InFlight, ok \in BOOLEAN :
       \E beh \in BareEventBehaviours(ExperimentFlagKey, r.userId) :
         GateSettles(r, ok, beh)
  \/ \E r \in InFlight, ok \in BOOLEAN : TriggerSettles(r, ok)
  \/ \E r \in InFlight : Respond(r)

Spec == Init /\ [][Next]_vars

\* The server handling one request at a time, with a provider that also
\* returns strings other than the two variations.
OtherVariations == {"", "TREATMENT", "variant_c"}

PreviewBehaviours(flagKey, userId) ==
  BareEventBehaviours(flagKey, userId)
    \cup {Behaviour(FALSE, r, <<>>) : r \in OtherVariations}

NextSequential ==
  \/ InitializeEppo
  \/ \E outcome \in InitOutcomes : SdkInitSettles(outcome)
  \/ inv = EmptyBag /\ ReceiveRequest
  \/ inv = EmptyBag /\ BrazeSendsWebhook
  \/ \E r \in InFlight, ok \in BOOLEAN :
       \E beh \in PreviewBehaviours(ExperimentFlagKey, r.userId) :
         GateSettles(r, ok, beh)
  \/ \E r \in InFlight, ok \in BOOLEAN : TriggerSettles(r, ok)
  \/ \E r \in InFlight : Respond(r)

SpecSequential == Init /\ [][NextSequential]_vars

\* The server handling, one at a time, requests that identify the user and
\* carry the attributes in every way.
InitIdentification ==
  /\ Fresh
  /\ env = DefaultEnv
  /\ held = <<>>
  /\ heldReturns = {}
  /\ ServerIdle
  /\ ServicesIdle

NextIdentification ==
  \/ InitializeEppo
  \/ \E outcome \in InitOutcomes : SdkInitSettles(outcome)
  \/ ReceiveIdentifyingRequest
  \/ \E r \in InFlight, ok \in BOOLEAN :
       \E beh \in BareEventBehaviours(ExperimentFlagKey, r.userId) :
         GateSettles(r, ok, beh)
  \/ \E r \in InFlight, ok \in BOOLEAN : TriggerSettles(r, ok)
  \/ \E r \in InFlight : Respond(r)

SpecIdentification == InitIdentification /\ [][NextIdentification]_vars

\* The server, its tracker initialized, with a flag whose allocation
\* targets the subscription tier: getStringAssignment is a function of the
\* attributes it is passed and does not throw.
TargetingRule(userAttributes) ==
  IF userAttributes.subscription_tier = "premium" THEN "treatment" ELSE "control"

TargetedBehaviours(flagKey, userId, userAttributes) ==
  {b \in BareEventBehaviours(flagKey, userId) :
     ~b.throws /\ b.result = TargetingRule(userAttributes)}

InitTargeted ==
  /\ Warm(<<>>, 0)
  /\ env = DefaultEnv
  /\ held = <<>>
  /\ heldReturns = {}
  /\ ServerIdle
  /\ ServicesIdle

NextTargeted ==
  \/ ReceiveTargetedRequest
  \/ BrazeSendsWebhook
  \/ \E r \in InFlight, ok \in BOOLEAN :
       \E beh \in TargetedBehaviours(ExperimentFlagKey, r.userId, r.userAttributes) :
         GateSettles(r, ok, beh)
  \/ \E r \in InFlight, ok \in BOOLEAN : TriggerSettles(r, ok)
  \/ \E r \in InFlight : Respond(r)

SpecTargeted == InitTargeted /\ [][NextTargeted]_vars

\* The server with requests running side by side, every call it makes to
\* Braze settling at some time: an updateUserAttributes or triggerCampaign
\* call that is awaited returns or throws.
LiveBehaviours(flagKey, userId) ==
  {b \in BareEventBehaviours(flagKey, userId) : b.events = <<>>}

GateSettlesSome ==
  \E r \in InFlight, ok \in BOOLEAN :
    \E beh \in LiveBehaviours(ExperimentFlagKey, r.userId) : GateSettles(r, ok, beh)

TriggerSettlesSome == \E r \in InFlight, ok \in BOOLEAN : TriggerSettles(r, ok)

NextLive ==
  \/ InitializeEppo
  \/ \E outcome \in InitOutcomes : SdkInitSettles(outcome)
  \/ ReceiveLiveRequest
  \/ BrazeSendsWebhook
  \/ GateSettlesSome
  \/ TriggerSettlesSome
  \/ \E r \in InFlight : Respond(r)

SpecLive ==
  Init /\ [][NextLive]_vars /\ WF_vars(GateSettlesSome) /\ WF_vars(TriggerSettlesSome)

\* BrazeService alone, constructed under every combination of
\* BRAZE_API_KEY and BRAZE_REST_ENDPOINT being set, its operations called
\* one at a time.
InitDispatcher ==
  /\ Fresh
  /\ \E a \in BOOLEAN, e \in BOOLEAN :
       /\ env = [DefaultEnv EXCEPT !.BRAZE_CONFIGURED = a /\ e]
       /\ braze = [apiKey |-> a, restEndpoint |-> e, call |-> <<>>]
  /\ enrichment = [apiKey |-> FALSE, call |-> <<>>]
  /\ typedCall = NoTypedCall
  /\ held = <<>>
  /\ heldReturns = {}
  /\ ServerIdle

NextDispatcher ==
  \/ \E op \in BrazeOperations, args \in BrazeArguments : BrazeCalled(op, args)
  \/ \E ok \in BOOLEAN : BrazePostSettles(ok)
  \/ BrazeCallEnds

SpecDispatcher == InitDispatcher /\ [][NextDispatcher]_vars

\* HightouchService alone, constructed with and without HIGHTOUCH_API_KEY,
\* getEnrichedUserAttributes called one call at a time.
InitEnricher ==
  /\ Fresh
  /\ env = DefaultEnv
  /\ braze = [apiKey |-> env.BRAZE_CONFIGURED, restEndpoint |-> env.BRAZE_CONFIGURED,
              call |-> <<>>]
  /\ \E k \in BOOLEAN : enrichment = [apiKey |-> k, call |-> <<>>]
  /\ typedCall = NoTypedCall
  /\ held = <<>>
  /\ heldReturns = {}
  /\ ServerIdle

NextEnricher ==
  \/ \E e \in ExistingAttributeObjects : EnrichCalled("u1", e)
  \/ \E outcome \in LookupOutcomes : LookupSettles(outcome)
  \/ EnrichCallEnds

SpecEnricher == InitEnricher /\ [][NextEnricher]_vars

\* The tracker from start-up with its three read operations called in any
\* order.
InitTyped ==
  /\ Fresh
  /\ env \in {[DefaultEnv EXCEPT !.EPPO_SDK_KEY = k] : k \in BOOLEAN}
  /\ held = <<>>
  /\ heldReturns = {}
  /\ ServerIdle
  /\ ServicesIdle

NextTyped ==
  \/ InitializeEppo
  \/ \E outcome \in InitOutcomes : SdkInitSettles(outcome)
  \/ CallGetAssignmentBare
  \/ CallGetAssignmentForeign
  \/ CallTypedAssignment

SpecTyped == InitTyped /\ [][NextTyped]_vars

(***************************************************************************)
(* Properties of the tracker.                                              *)
(***************************************************************************)
\* A getAssignment call is the step that flips lastCall.tick.
Called == lastCall'.tick # lastCall.tick

\* C4: in every reachable state recentAssignments holds at most 100
\* entries, whatever events were logged and records re-keyed.
C4_CacheWithinCapacity == Len(recentAssignments) <= Capacity

\* A full cache right after a call that logged an event under a new key and
\* lost an entry for it.
C4_Witness ==
  /\ Len(recentAssignments) = Capacity
  /\ lastCall.logged # <<>>
  /\ lastCall.added # {}
  /\ lastCall.removed # {}

\* C5: when logAssignment stores a new key into a Map of 100 entries,
\* exactly one entry leaves the Map, it is the one inserted earliest, also
\* when the call before read it, and every other entry stays as it was.
C5_EvictsOldestInserted ==
  [][(/\ Called
      /\ Len(recentAssignments) = Capacity
      /\ lastCall'.logged # <<>>
      /\ ~MapHas(recentAssignments, lastCall'.logged[1].key))
     => (/\ MapKeys(recentAssignments) \ MapKeys(recentAssignments') = {Head(insertionOrder)}
         /\ Len(recentAssignments') = Capacity
         /\ \A i \in 1..Len(recentAssignments) :
              recentAssignments[i].key # Head(insertionOrder)
                => MapGet(recentAssignments', recentAssignments[i].key)
                     = <<recentAssignments[i].value>>)]_vars

\* The entry evicted for a new key is the one the previous call's lookup
\* had just read.
C5_Witness ==
  /\ lastCall.logged # <<>>
  /\ lastCall.added # {}
  /\ lastCall.prevHit # <<>>
  /\ lastCall.removed = {lastCall.prevHit[1]}

\* The conclusion of the reconciliation claims for getAssignment(f, u, ..):
\* the record that was under "u:undefined" is now under "u:f" with
\* flagKey = f, "u:undefined" is gone, and the call returned that record.
Rekeyed(f, u) ==
  LET old   == MapGet(recentAssignments, Str(u) \o ":undefined")
      fixed == [old[1] EXCEPT !.flagKey = f]
  IN  /\ MapGet(recentAssignments', Str(u) \o ":" \o Str(f)) = <<fixed>>
      /\ ~MapHas(recentAssignments', Str(u) \o ":undefined")
      /\ lastCall'.returned.assignmentDetails = <<fixed>>

StaleOnly(f, u) ==
  /\ MapHas(recentAssignments, Str(u) \o ":undefined")
  /\ ~MapHas(recentAssignments, Str(u) \o ":" \o Str(f))

\* C6 as claimed: a record under "U:undefined" and none under "U:F" is,
\* after resolve(F, U, attrs), under "U:F" with flagKey F, the stale key is
\* gone and the record is returned as assignmentDetails.
C6_Original ==
  [][(Called /\ StaleOnly(lastCall'.flagKey, lastCall'.userId))
     => Rekeyed(lastCall'.flagKey, lastCall'.userId)]_vars

\* C6, amended: the same, for a call whose provider call returns without
\* throwing and without logAssignment being called during it.
C6_RekeysWhenNothingLogged ==
  [][(/\ Called
      /\ StaleOnly(lastCall'.flagKey, lastCall'.userId)
      /\ lastCall'.returned.path = "returned"
      /\ lastCall'.logged = <<>>)
     => Rekeyed(lastCall'.flagKey, lastCall'.userId)]_vars

\* A call that re-keyed a record: it found it under "U:undefined".
C6_Witness ==
  /\ lastCall.returned.detailsFrom = "rekeyed"
  /\ lastCall.logged = <<>>
  /\ lastCall.hit = <<Str(lastCall.userId) \o ":undefined">>
  /\ lastCall.removed = {Str(lastCall.userId) \o ":undefined"}
  /\ lastCall.added = {Str(lastCall.userId) \o ":" \o Str(lastCall.flagKey)}

\* C7 as claimed: between calls (no getAssignment executing)
\* this.currentRequest is null.
C7_ContextClearedOnReturn == currentRequest = <<>>

\* C9 as claimed: all getAssignment calls with the held input, whose
\* evaluation by the provider did not change, returned the same assignment.
C9_Original == Cardinality({r.assignment : r \in heldReturns}) <= 1

\* C9, amended: the same, for the calls made while the tracker is
\* initialized.
C9_ConsistentWhileInitialized ==
  Cardinality({r.assignment : r \in {x \in heldReturns : x.initialized}}) <= 1

\* A second initialized call with the held input returned a variation, a
\* call with another input having been made in between.
C9_Witness ==
  \E r \in heldReturns :
    r.initialized /\ r.repeated /\ r.afterOther /\ r.assignment \in Variations

\* C10: a getAssignment call on a tracker whose initialized flag is false
\* returns assignment null, assignmentDetails null and initialized false,
\* does not call the provider, and leaves recentAssignments, currentRequest
\* and assignmentLoggerCalled as they were.
C10_UninitializedReturn ==
  [][(Called /\ ~initialized)
     => (/\ lastCall'.returned.assignment = Null
         /\ lastCall'.returned.assignmentDetails = <<>>
         /\ lastCall'.returned.initialized = <<FALSE>>
         /\ ~lastCall'.returned.providerCalled
         /\ UNCHANGED <<recentAssignments, currentRequest, assignmentLoggerCalled>>)]_vars

\* A call answered on the uninitialized path although this.client is set.
C10_Witness ==
  /\ lastCall.returned.path = "uninitialized"
  /\ client
  /\ ~initialized

\* C11: on an initialized tracker a getAssignment call whose provider call
\* throws returns an object, with assignment null and assignmentDetails
\* null.
C11_ProviderThrowReturnsNull ==
  [][(Called /\ client /\ initialized /\ lastCall'.threw)
     => (/\ lastCall'.returned.providerCalled
         /\ lastCall'.returned.assignment = Null
         /\ lastCall'.returned.assignmentDetails = <<>>)]_vars

\* A call whose provider call threw after logging an event, which is
\* stored, returned null for both.
C11_Witness ==
  /\ initialized
  /\ lastCall.threw
  /\ lastCall.logged # <<>>
  /\ MapHas(recentAssignments, lastCall.logged[1].key)
  /\ lastCall.returned.assignment = Null


\* C21: without EPPO_SDK_KEY initializeEppo rejects, client and initialized
\* stay unset and every getAssignment afterwards returns the uninitialized
\* object with a null assignment; initialized is true only when EppoSdk.init,
\* which registers logAssignment, has resolved and the client is set.
C21_InitializeNeedsCredential ==
  /\ (~env.EPPO_SDK_KEY /\ initPc # "idle")
       => /\ initPc = "rejected"
          /\ ~client
          /\ ~initialized
          /\ lastCall.returned.path # "none"
               => /\ lastCall.returned = UninitializedReturn
                  /\ lastCall.returned.assignment = Null
  /\ initialized => (client /\ initPc = "resolved")

\* Without the key, initializeEppo rejected and a getAssignment call made
\* afterwards returned the uninitialized object.
C21_Witness ==
  /\ ~env.EPPO_SDK_KEY
  /\ initPc = "rejected"
  /\ lastCall.returned.path = "uninitialized"
  /\ lastCall.returned.assignment = Null

TypedCalled == typedCall'.tick # typedCall.tick

\* C22: getBooleanAssignment and getNumericAssignment return defaultValue
\* when the tracker is not initialized and when the SDK's typed call throws,
\* return on every path, return a value that is the default or the SDK's
\* whatever recentAssignments holds, and leave currentRequest as it was.
C22_TypedReturnsDefault ==
  [][TypedCalled =>
       /\ typedCall'.returned.path \in {"uninitialized", "caught", "returned"}
       /\ NotInitialized(client, initialized)
            => (~typedCall'.providerCalled /\ typedCall'.returned.value = typedCall'.defaultValue)
       /\ typedCall'.threw => typedCall'.returned.value = typedCall'.defaultValue
       /\ (typedCall'.providerCalled /\ ~typedCall'.threw)
            => typedCall'.returned.value = typedCall'.result
       /\ currentRequest' = currentRequest]_vars

\* The SDK's numeric call threw while currentRequest still held the context
\* of an earlier getAssignment call: 5, the caller's default, was returned.
C22_Witness ==
  /\ typedCall.kind = "numeric"
  /\ typedCall.threw
  /\ typedCall.defaultValue = JNum(5)
  /\ typedCall.returned.value = JNum(5)
  /\ currentRequest # <<>>

\* C27: an event logged during getAssignment(F, U, attrs), whether or not
\* it carries flagKey and subject, is stored under "U:F" in place of any
\* record that was there, and the lookup of that call finds it there.
C27_EventFoundByItsCall ==
  (lastCall.returned.path = "returned" /\ lastCall.logged # <<>>)
    => LET ev  == lastCall.logged[1].event
           key == AssignmentKey(lastCall.userId, lastCall.flagKey)
       IN  /\ Cardinality({i \in 1..Len(recentAssignments) : recentAssignments[i].key = key}) = 1
           /\ MapGet(recentAssignments, key)
                = <<[subject |-> ev.subject, flagKey |-> lastCall.flagKey,
                     variation |-> ev.variation]>>
           /\ lastCall.returned.assignmentDetails = MapGet(recentAssignments, key)
           /\ lastCall.returned.detailsFrom = "stored"
           /\ lastCall.hit = <<key>>

\* An event without flagKey and subject replaced the record u1 already had
\* in a full cache: nothing was added or evicted and the call returned the
\* new record.
C27_Witness ==
  /\ lastCall.returned.path = "returned"
  /\ lastCall.logged # <<>>
  /\ lastCall.logged[1].event = AssignmentEvent(Undefined, Undefined, "treatment")
  /\ lastCall.userId = "u1"
  /\ lastCall.flagKey = ExperimentFlagKey
  /\ lastCall.added = {}
  /\ lastCall.removed = {}
  /\ Len(recentAssignments) = Capacity
  /\ lastCall.returned.assignmentDetails[1].variation = "treatment"

\* C28: a getAssignment call that reaches its lookup returns the
\* synthesized fallbackDetails exactly when, after the lookup and the
\* re-keying, there is no record under "userId:flagKey"; the record's
\* assignmentLoggerFired is true exactly when logAssignment ran during
\* this call, and its note is the fired-but-not-found one or the
\* never-fired one accordingly.
C28_FallbackDetails ==
  [][(Called /\ lastCall'.returned.path = "returned") =>
       LET key   == AssignmentKey(lastCall'.userId, lastCall'.flagKey)
           d     == lastCall'.returned.assignmentDetails[1]
           fired == lastCall'.logged # <<>>
       IN  /\ (lastCall'.returned.detailsFrom = "fallback") <=> ~MapHas(recentAssignments', key)
           /\ lastCall'.returned.detailsFrom = "fallback"
                => /\ d.debug.assignmentLoggerFired = fired
                   /\ d.debug.lookupKey = key
                   /\ d.debug.storedAssignmentsCount = Len(recentAssignments')
                   /\ d.debug.note = IF fired
                                     THEN "Logger fired but assignment not found in storage"
                                     ELSE "Assignment logger did not fire - may be cached or default assignment"]_vars

\* The event of the call was logged for another flag: the call returned the
\* fallback record that says the logger fired.
C28_Witness ==
  /\ lastCall.returned.path = "returned"
  /\ lastCall.returned.detailsFrom = "fallback"
  /\ lastCall.logged # <<>>
  /\ lastCall.returned.assignmentDetails[1].debug.assignmentLoggerFired
  /\ lastCall.returned.assignmentDetails[1].debug.note
       = "Logger fired but assignment not found in storage"

\* C30: every entry of recentAssignments stored under "S:F" holds a record
\* whose subject is S and whose flagKey is F, and no two entries hold
\* records of the same subject and flagKey.
C30_EntriesMatchKeys ==
  /\ \A i \in DOMAIN recentAssignments :
       recentAssignments[i].key
         = AssignmentKey(recentAssignments[i].value.subject,
                         recentAssignments[i].value.flagKey)
  /\ \A i, j \in DOMAIN recentAssignments :
       (/\ recentAssignments[i].value.subject = recentAssignments[j].value.subject
        /\ recentAssignments[i].value.flagKey = recentAssignments[j].value.flagKey)
         => i = j

\* The flagKey half of C30 alone.
EntriesMatchFlagKeys ==
  \A i \in DOMAIN recentAssignments :
    \E u \in UserInputs \cup {FillerUser(n) : n \in 1..Capacity} :
      recentAssignments[i].key = AssignmentKey(u, recentAssignments[i].value.flagKey)

\* C31: when getAssignment returns a non-null assignment with details taken
\* from recentAssignments, the record was logged during this call and its
\* variation is the returned assignment.
C31_DetailsAreOfThisCall ==
  (/\ lastCall.returned.path = "returned"
   /\ lastCall.returned.assignment # Null
   /\ lastCall.returned.detailsFrom \in {"stored", "rekeyed"})
    => /\ \E i \in DOMAIN lastCall.logged : lastCall.logged[i].key = lastCall.hit[1]
       /\ lastCall.returned.assignmentDetails[1].variation = lastCall.returned.assignment

\* C32: an event logged during a getBooleanAssignment or
\* getNumericAssignment call, while no getAssignment call is executing, is
\* stored with 'unknown' in the place of the flagKey or subject it omits,
\* and not with the flag or user of an earlier getAssignment call.
C32_TypedEventsUnderUnknown ==
  \A i \in DOMAIN typedCall.logged :
    typedCall.logged[i].key
      = AssignmentKey(OrElse(typedCall.logged[i].event.subject, "unknown"),
                      OrElse(typedCall.logged[i].event.flagKey, "unknown"))

\* The keys `${subject}:undefined` that the model's calls could produce.
UndefinedKeys ==
  {AssignmentKey(u, Undefined) : u \in UserInputs \cup {"unknown", Undefined}}

\* C33: from an empty Map, with every getAssignment call made with a
\* defined flagKey, no key of recentAssignments has the form 'U:undefined'
\* and no getAssignment call takes the re-keying branch.
C33_NoUndefinedKey ==
  /\ \A i \in DOMAIN recentAssignments : recentAssignments[i].key \notin UndefinedKeys
  /\ lastCall.returned.detailsFrom # "rekeyed"

\* A getAssignment call with a defined flagKey logged an event without
\* flagKey, which is in the Map under the flagKey of the call.
C33_Witness ==
  /\ lastCall.flagKey = ExperimentFlagKey
  /\ \E i \in DOMAIN lastCall.logged :
       /\ lastCall.logged[i].event.flagKey = Undefined
       /\ lastCall.logged[i].key = AssignmentKey(lastCall.userId, ExperimentFlagKey)
       /\ MapGet(recentAssignments, lastCall.logged[i].key) # <<>>

\* The keys of a Map in its iteration order.
KeySequence(m) == [i \in 1..Len(m) |-> m[i].key]

\* C34: an event logged under a key that recentAssignments already holds
\* replaces the record in place: the size is unchanged, no entry is evicted
\* and every entry, the replaced one included, keeps its position in the
\* order of eviction.
C34_OverwriteInPlace ==
  [][(/\ Called
      /\ lastCall'.logged # <<>>
      /\ MapHas(recentAssignments, lastCall'.logged[1].key))
       => /\ Len(recentAssignments') = Len(recentAssignments)
          /\ KeySequence(recentAssignments') = KeySequence(recentAssignments)
          /\ MapGet(recentAssignments', lastCall'.logged[1].key)
               = <<AssignmentToStore(lastCall'.logged[1].event,
                                     EffectiveFlagKey(lastCall'.logged[1].event,
                                                      RequestContext(lastCall'.flagKey,
                                                                     lastCall'.userId,
                                                                     lastCall'.userAttributes)))>>]_vars

\* The full Map's oldest record was replaced by the event of the latest
\* call, with another variation, and is still the first in line for
\* eviction.
C34_Witness ==
  /\ Len(recentAssignments) = Capacity
  /\ lastCall.logged # <<>>
  /\ lastCall.added = {}
  /\ lastCall.removed = {}
  /\ recentAssignments[1].key = lastCall.logged[1].key
  /\ recentAssignments[1].value.variation = "treatment"

\* The key `${userId}:${flagKey}` of the call that has just been made, and
\* the key `${userId}:undefined` of its second lookup.
OwnKey == AssignmentKey(lastCall'.userId, lastCall'.flagKey)
StaleKey == AssignmentKey(lastCall'.userId, Undefined)

\* The keys whose entry the step added, removed or changed.
Entries(m) == {m[i] : i \in 1..Len(m)}
Touched ==
  {e.key : e \in (Entries(recentAssignments) \ Entries(recentAssignments'))
                   \cup (Entries(recentAssignments') \ Entries(recentAssignments))}

\* The step evicted the entry under k: the Map was full, the call's own key
\* was new, and k was the oldest key.
EntryEvicted(k) ==
  /\ Len(recentAssignments) = Capacity
  /\ ~MapHas(recentAssignments, OwnKey)
  /\ k = MapFirstKey(recentAssignments)
  /\ ~MapHas(recentAssignments', k)

\* The step re-keyed the entry under k: k is `${userId}:undefined`, the
\* call found no record under its own key, and the record now is under the
\* call's own key with the flagKey of the call.
EntryRekeyed(k) ==
  /\ k = StaleKey
  /\ lastCall'.returned.detailsFrom = "rekeyed"
  /\ ~MapHas(recentAssignments', k)
  /\ MapGet(recentAssignments', OwnKey)
       = <<[MapGet(recentAssignments, k)[1] EXCEPT !.flagKey = lastCall'.flagKey]>>

\* C35 as stated: a getAssignment call whose events carry the call's subject
\* and flagKey or omit them changes at most the entry under its own key
\* and, at capacity, removes the oldest entry; every other entry is kept.
C35_OnlyOwnEntryOrOldest ==
  [][Called =>
       \A k \in Touched \ {OwnKey} : EntryEvicted(k)]_vars

\* C35 with the re-keying: besides its own entry and the evicted oldest
\* one, a call that finds no record under its own key removes the entry
\* under `${userId}:undefined`, whose record it stores under its own key.
C35_OwnEntryOldestOrRekeyed ==
  [][Called =>
       \A k \in Touched \ {OwnKey} : EntryEvicted(k) \/ EntryRekeyed(k)]_vars

\* A call on a full Map stored its event under its own new key and the
\* oldest entry went, the other entries staying.
C35_Witness ==
  /\ Len(recentAssignments) = Capacity
  /\ lastCall.logged # <<>>
  /\ lastCall.added = {AssignmentKey(lastCall.userId, lastCall.flagKey)}
  /\ lastCall.removed # {}
  /\ lastCall.returned.detailsFrom = "stored"

(***************************************************************************)
(* Properties of the server.                                               *)
(***************************************************************************)
\* The campaign id is set and is not the placeholder of .env.example.
CampaignConfigured ==
  /\ env.BRAZE_WEBHOOK_CAMPAIGN_ID # Undefined
  /\ env.BRAZE_WEBHOOK_CAMPAIGN_ID # "your_webhook_campaign_id_here"

\* The body carries one of the four fields that mark a request as coming
\* from Braze.
PlatformBody(b) ==
  \/ b.trigger_properties # Undefined
  \/ b.eppo_variant # Undefined
  \/ b.eppo_flagkey # Undefined
  \/ b.subject # Undefined

\* C1: loop prevention: the webhook Braze sends for a triggered campaign
\* (user_id, eppo_flag_key, eppo_assignment) is processed without
\* triggering the campaign again, so there are never more triggerCampaign
\* calls than requests from callers.
C1_LoopPrevention ==
  /\ \A r \in InFlight : r.origin = "braze" => (r.attempts = 0 /\ r.pc # "trigger")
  /\ triggerCalls <= callerRequests

\* C2: an invocation whose body carries trigger_properties, eppo_variant,
\* eppo_flagkey or subject never calls triggerCampaign, under every
\* campaign id configuration.
C2_PlatformBodyNeverTriggers ==
  \A r \in InFlight :
    PlatformBody(r.body) => (r.attempts = 0 /\ r.pc # "trigger" /\ r.triggerProperties = <<>>)

\* An invocation for a body with only `subject` has returned while a real
\* campaign id and the Braze credentials are configured.
C2_Witness ==
  \E r \in InFlight :
    /\ r.body.subject # Undefined
    /\ r.body.trigger_properties = Undefined
    /\ r.pc = "done"
    /\ r.resolved
    /\ CampaignConfigured
    /\ env.BRAZE_CONFIGURED

\* C3: an invocation for a body with none of the four fields has, when it
\* returns, called triggerCampaign exactly once with the trigger properties
\* { eppo_flag_key, eppo_assignment } of its own resolution if the campaign
\* id is set and not a placeholder, and not at all otherwise; no invocation
\* calls it twice.
C3_InternalTriggersOnce ==
  \A r \in InFlight :
    /\ r.attempts <= 1
    /\ (~PlatformBody(r.body) /\ r.pc = "done") =>
         IF CampaignConfigured
         THEN /\ r.attempts = 1
              /\ r.triggerProperties =
                   <<[eppo_flag_key |-> ExperimentFlagKey, eppo_assignment |-> r.assignment]>>
         ELSE r.attempts = 0 /\ r.triggerProperties = <<>>

\* An invocation for { userId, user_attributes } has returned after its one
\* triggerCampaign call.
C3_Witness ==
  \E r \in InFlight :
    /\ r.body = InternalBody("u1", EmptyAttrs)
    /\ r.pc = "done"
    /\ r.attempts = 1
    /\ r.assignment = "treatment"
    /\ triggerCalls = 1

\* C8: with invocations in flight for several users, the context seen
\* between two turns is never that of another call than the latest one,
\* and every event that takes its subject and flag key from the context is
\* stored under the user and flag key of the getAssignment call during
\* which it was logged; the call adds no key of another user.
C8_EventsAttributedToOwnCall ==
  LET own == AssignmentKey(lastCall.userId, lastCall.flagKey)
  IN  /\ currentRequest \in {<<>>, <<[flagKey |-> lastCall.flagKey, userId |-> lastCall.userId,
                                     userAttributes |-> lastCall.userAttributes]>>}
      /\ \A i \in 1..Len(lastCall.logged) :
           (lastCall.logged[i].event.subject = Undefined
              /\ lastCall.logged[i].event.flagKey = Undefined)
             => lastCall.logged[i].key = own
      /\ lastCall.added \subseteq {own}

\* A call for "unknown-user" logged a context-keyed event while the
\* invocation for u1, resolved earlier, awaits triggerCampaign.
C8_Witness ==
  /\ lastCall.userId = "unknown-user"
  /\ lastCall.logged # <<>>
  /\ lastCall.logged[1].event.subject = Undefined
  /\ MapHas(recentAssignments, AssignmentKey("unknown-user", ExperimentFlagKey))
  /\ \E r \in InFlight : r.userId = "u1" /\ r.pc = "trigger" /\ r.resolved

\* The three previews.
PreviewOfType(type) ==
  IF type = "TREATMENT"
  THEN [type |-> "TREATMENT", subject |-> "Special Offer - Treatment Version!",
        message_variation_id |-> "treatment_variation"]
  ELSE IF type = "CONTROL"
  THEN [type |-> "CONTROL", subject |-> "Your Weekly Update",
        message_variation_id |-> "control_variation"]
  ELSE [type |-> "DEFAULT", subject |-> "Hello from our integration!",
        message_variation_id |-> "default_variation"]

\* C12: the preview an invocation returns is fixed by its assignment alone:
\* the TREATMENT preview for "treatment", the CONTROL preview for
\* "control" and the DEFAULT preview for every other value, null included,
\* whatever the request's origin and user and whether or not the Braze
\* calls failed.
C12_PreviewFromAssignmentAlone ==
  \A r \in InFlight :
    r.pc = "done" =>
      /\ r.result # <<>>
      /\ r.result[1].messagePreview =
           PreviewOfType(CASE r.assignment = "treatment" -> "TREATMENT"
                           [] r.assignment = "control"   -> "CONTROL"
                           [] OTHER                      -> "DEFAULT")

\* An invocation resolved to the string "TREATMENT" returned the DEFAULT
\* preview, the Braze calls having failed for lack of credentials.
C12_Witness ==
  \E r \in InFlight :
    /\ r.pc = "done"
    /\ r.assignment = "TREATMENT"
    /\ r.result[1].messagePreview.type = "DEFAULT"
    /\ ~env.BRAZE_CONFIGURED
    /\ r.attempts = 1

C14_TriggerFailureSwallowed ==
  [][/\ \A r \in InFlight :
          (r.pc = "trigger" /\ CopiesIn(r, inv') < CopiesIn(r, inv))
            => /\ triggerCalls' = triggerCalls
               /\ \E q \in BagToSet(inv') :
                    /\ q = [r EXCEPT !.pc = "done", !.result = q.result]
                    /\ q.attempts = 1
                    /\ q.result = <<[userId |-> r.userId, eppoAssignment |-> r.assignment,
                                     flagKey |-> ExperimentFlagKey,
                                     messagePreview |->
                                       PreviewOfType(
                                         CASE r.assignment = "treatment" -> "TREATMENT"
                                           [] r.assignment = "control"   -> "CONTROL"
                                           [] OTHER                      -> "DEFAULT")]>>
     /\ \A q \in BagToSet(inv') : q.attempts <= 1]_vars

\* Without Braze credentials triggerCampaign throws; the invocation made
\* the one call, no webhook is pending, and it returned the treatment
\* preview.
C14_Witness ==
  /\ ~env.BRAZE_CONFIGURED
  /\ pendingWebhooks = {}
  /\ triggerCalls = 1
  /\ \E r \in InFlight :
       /\ r.pc = "done"
       /\ r.attempts = 1
       /\ r.assignment = "treatment"
       /\ r.result[1].messagePreview.type = "TREATMENT"

\* C15: an invocation ends only by returning: every step that takes an
\* invocation out of the gate or out of the triggerCampaign await leaves
\* it running or returned, whatever the body, the outcome of the two Braze
\* calls and of the provider call and the state of the tracker; a
\* returned invocation holds an aggregate with one of the three previews,
\* and only a returned invocation is answered.
C15_AlwaysReturnsAggregate ==
  [][/\ \A r \in InFlight :
          CopiesIn(r, inv') < CopiesIn(r, inv)
            => \/ r.pc = "done"
               \/ \E q \in BagToSet(inv') :
                    /\ q.body = r.body /\ q.origin = r.origin
                    /\ CopiesIn(q, inv') > CopiesIn(q, inv)
                    /\ \/ r.pc = "gate" /\ q.pc \in {"trigger", "done"}
                       \/ r.pc = "trigger" /\ q.pc = "done"
     /\ \A q \in BagToSet(inv') :
          /\ q.pc \in {"gate", "trigger", "done"}
          /\ q.pc = "done" =>
               /\ Len(q.result) = 1
               /\ q.result[1].messagePreview
                    \in {PreviewOfType(t) : t \in {"TREATMENT", "CONTROL", "DEFAULT"}}]_vars

\* An invocation returned its aggregate after updateUserAttributes and
\* triggerCampaign threw for lack of credentials and the provider call
\* threw.
C15_Witness ==
  /\ ~env.BRAZE_CONFIGURED
  /\ initialized
  /\ lastCall.threw
  /\ \E r \in InFlight :
       /\ r.pc = "done"
       /\ r.attempts = 1
       /\ r.userId = lastCall.userId
       /\ r.assignment = Null
       /\ r.result[1].messagePreview.type = "DEFAULT"

\* C29: an invocation awaits the gate before it has resolved, has resolved
\* before it awaits the trigger, and has built the preview only when it
\* returns; the eppo_assignment of its trigger properties and the
\* assignment of its preview and aggregate are the value its own
\* getAssignment call returned, whatever other invocations resolved
\* meanwhile.
C29_OrderAndOwnAssignment ==
  \A r \in InFlight :
    /\ r.pc = "gate" => (~r.resolved /\ r.triggerProperties = <<>> /\ r.result = <<>>)
    /\ r.pc = "trigger" => (r.resolved /\ r.triggerProperties # <<>> /\ r.result = <<>>)
    /\ r.pc = "done" => (r.resolved /\ r.result # <<>>)
    /\ r.triggerProperties # <<>> => r.triggerProperties[1].eppo_assignment = r.assignment
    /\ r.result # <<>>
         => /\ r.result[1].eppoAssignment = r.assignment
            /\ r.result[1].messagePreview = MessagePreview(r.assignment)

\* An invocation returned the treatment preview for the campaign it had
\* triggered with 'treatment', after another invocation had resolved to
\* 'control'.
C29_Witness ==
  \E r \in InFlight :
    /\ r.pc = "done"
    /\ r.triggerProperties # <<>>
    /\ r.triggerProperties[1].eppo_assignment = "treatment"
    /\ r.result[1].messagePreview.type = "TREATMENT"
    /\ lastCall.returned.assignment = "control"

(***************************************************************************)
(* Properties of BrazeService.                                             *)
(***************************************************************************)
\* C19: an operation called while BRAZE_API_KEY or BRAZE_REST_ENDPOINT is
\* not set throws the configuration error and issues no request, and this
\* for each of the five operations.
C19_NoRequestWithoutCredentials ==
  (braze.call # <<>> /\ (~braze.apiKey \/ ~braze.restEndpoint))
    => /\ braze.call[1].pc = "threw"
       /\ braze.call[1].error = "configuration"
       /\ braze.call[1].request = <<>>

\* triggerCanvas called with the API key set and the endpoint missing threw
\* the configuration error.
C19_Witness ==
  /\ braze.apiKey
  /\ ~braze.restEndpoint
  /\ braze.call # <<>>
  /\ braze.call[1].op = "triggerCanvas"
  /\ braze.call[1].pc = "threw"
  /\ braze.call[1].error = "configuration"

EnrichCall == enrichment.call[1]

\* The lookup of the call in progress did not find the user: no API key, a
\* 404, a failure or the timeout.
LookupFailed ==
  \/ ~enrichment.apiKey
  \/ /\ EnrichCall.outcome # <<>>
     /\ EnrichCall.outcome[1].kind \in {"status404", "failed", "timeout"}

\* C16: getEnrichedUserAttributes never throws, and when HIGHTOUCH_API_KEY
\* is not set, the lookup returns 404, fails or times out, it returns the
\* output of the fallback branch for the same existingAttributes.
C16_EnrichNeverFails ==
  enrichment.call # <<>>
    => /\ EnrichCall.pc # "threw"
       /\ (EnrichCall.pc = "returned" /\ LookupFailed)
            => EnrichCall.result
                 = <<RemoveUndefined(FallbackAttributes(EnrichCall.existingAttributes))>>

\* A lookup that timed out returned, for a caller holding a premium tier.
C16_Witness ==
  /\ enrichment.call # <<>>
  /\ EnrichCall.pc = "returned"
  /\ EnrichCall.outcome # <<>>
  /\ EnrichCall.outcome[1].kind = "timeout"
  /\ Get(EnrichCall.existingAttributes, "subscriptionTier") = JStr("premium")
  /\ Get(EnrichCall.result[1], "premium_subscriber") = JBool(TRUE)

\* The call in progress takes the branch without Hightouch data: the lookup
\* did not find the user, or found a record without audiences.
OnFallbackPath ==
  \/ LookupFailed
  \/ /\ EnrichCall.outcome # <<>>
     /\ EnrichCall.outcome[1].kind = "response"
     /\ \A i \in DOMAIN EnrichCall.outcome[1].data[1]._audiences :
          DOMAIN EnrichCall.outcome[1].data[1]._audiences[i] = {}

\* Some input of the flag holds: one of the two explicit attributes is
\* truthy, or one of the two tier attributes is the tier.
SomeInput(e, explicit, alias, tierName) ==
  \/ JTruthy(Get(e, explicit))
  \/ JTruthy(Get(e, alias))
  \/ Get(e, "subscription_tier") = JStr(tierName)
  \/ Get(e, "subscriptionTier") = JStr(tierName)

\* The flag of the result is the OR of its inputs: truthy when some input
\* holds, false when none does.
FlagIsOrOfInputs(explicit, alias, tierName) ==
  LET flag == Get(EnrichCall.result[1], explicit)
      some == SomeInput(EnrichCall.existingAttributes, explicit, alias, tierName)
  IN  /\ JTruthy(flag) <=> some
      /\ (flag = JBool(FALSE)) <=> ~some

\* C17: on the branch without Hightouch data premium_subscriber,
\* high_value_customer and at_risk_churn are each the OR of their inputs
\* (the explicit attribute, its camel-case alias, subscription_tier and
\* subscriptionTier being 'premium', for at_risk_churn 'free'), false when
\* no input holds, and the result has _attribute_source 'browser'.
C17_FallbackFlags ==
  (enrichment.call # <<>> /\ EnrichCall.pc = "returned" /\ OnFallbackPath)
    => /\ FlagIsOrOfInputs("premium_subscriber", "isPremium", "premium")
       /\ FlagIsOrOfInputs("high_value_customer", "isHighValue", "premium")
       /\ FlagIsOrOfInputs("at_risk_churn", "isAtRisk", "free")
       /\ Get(EnrichCall.result[1], "_attribute_source") = JStr("browser")

\* Found without audiences, a caller holding only subscriptionTier 'free'
\* gets at_risk_churn true and the other two flags false.
C17_Witness ==
  /\ enrichment.call # <<>>
  /\ EnrichCall.pc = "returned"
  /\ EnrichCall.outcome # <<>>
  /\ EnrichCall.outcome[1].kind = "response"
  /\ OnFallbackPath
  /\ EnrichCall.existingAttributes = Prop("subscriptionTier", JStr("free"))
  /\ Get(EnrichCall.result[1], "at_risk_churn") = JBool(TRUE)
  /\ Get(EnrichCall.result[1], "premium_subscriber") = JBool(FALSE)
  /\ Get(EnrichCall.result[1], "high_value_customer") = JBool(FALSE)

\* The call in progress found a record with at least one audience.
OnFoundPath ==
  /\ enrichment.apiKey
  /\ EnrichCall.outcome # <<>>
  /\ EnrichCall.outcome[1].kind = "response"
  /\ \E i \in DOMAIN EnrichCall.outcome[1].data[1]._audiences :
       DOMAIN EnrichCall.outcome[1].data[1]._audiences[i] # {}

AudienceFlags == {"premium_subscriber", "high_value_customer", "at_risk_churn"}

\* Each of the three flags of the result is true exactly when the record's
\* audiences mark it true, and false otherwise.
FlagsFromProvider ==
  \A f \in AudienceFlags :
    Get(EnrichCall.result[1], f)
      = JBool(Get(EnrichCall.outcome[1].data[1]._audiences[1], f) = JBool(TRUE))

\* Apart from the three flags the result is existingAttributes overlaid by
\* the provider's attributes (its four fields, then its custom attributes),
\* without the entries that are undefined or null.
MergedFromProvider ==
  LET data == EnrichCall.outcome[1].data[1]
      fields == {"lifetime_value", "churn_risk", "tier", "subscription_status"}
      Merged(k) == IF k \in DOMAIN data.custom_attributes THEN data.custom_attributes[k]
                   ELSE IF k \in fields THEN data[k]
                   ELSE Get(EnrichCall.existingAttributes, k)
      names == (DOMAIN EnrichCall.existingAttributes \cup fields
                  \cup DOMAIN data.custom_attributes \cup DOMAIN EnrichCall.result[1])
                 \ AudienceFlags
  IN  \A k \in names :
        IF Merged(k).t \in {"undefined", "null"}
        THEN k \notin DOMAIN EnrichCall.result[1]
        ELSE k \in DOMAIN EnrichCall.result[1] /\ EnrichCall.result[1][k] = Merged(k)

\* C18 as stated: found with at least one audience, the result is the merge
\* with the three flags and is not tagged as browser-sourced; found without
\* audiences, the result is the fallback branch's.
C18_Original ==
  (enrichment.call # <<>> /\ EnrichCall.pc = "returned")
    => /\ OnFoundPath
            => /\ MergedFromProvider
               /\ FlagsFromProvider
               /\ Get(EnrichCall.result[1], "_attribute_source") # JStr("browser")
       /\ (EnrichCall.outcome # <<>> /\ EnrichCall.outcome[1].kind = "response"
             /\ ~OnFoundPath)
            => EnrichCall.result
                 = <<RemoveUndefined(FallbackAttributes(EnrichCall.existingAttributes))>>

\* C18: found with at least one audience, the result is existingAttributes
\* overlaid by the provider's attributes, entries left undefined or null
\* removed, and the three flags, each true exactly when the provider marks
\* it true; the branch adds no _attribute_source, so the result has one
\* only when the caller's or the provider's attributes carry it.  Found
\* without audiences, the result is the fallback branch's.
C18_FoundPathMerge ==
  (enrichment.call # <<>> /\ EnrichCall.pc = "returned")
    => /\ OnFoundPath
            => /\ MergedFromProvider
               /\ FlagsFromProvider
               /\ Get(EnrichCall.result[1], "_attribute_source") = JStr("browser")
                    => \/ Get(EnrichCall.existingAttributes, "_attribute_source")
                            = JStr("browser")
                       \/ Get(EnrichCall.outcome[1].data[1].custom_attributes,
                              "_attribute_source") = JStr("browser")
       /\ (EnrichCall.outcome # <<>> /\ EnrichCall.outcome[1].kind = "response"
             /\ ~OnFoundPath)
            => EnrichCall.result
                 = <<RemoveUndefined(FallbackAttributes(EnrichCall.existingAttributes))>>

\* A premium subscriber of the provider whose caller holds country 'US' and
\* tier 'gold': the provider's country wins, its missing tier removes the
\* caller's, and only premium_subscriber is true.
C18_Witness ==
  /\ enrichment.call # <<>>
  /\ EnrichCall.pc = "returned"
  /\ OnFoundPath
  /\ EnrichCall.existingAttributes
       = Spread(Prop("country", JStr("US")), Prop("tier", JStr("gold")))
  /\ EnrichCall.outcome[1].data[1].tier = JUndefined
  /\ Get(EnrichCall.result[1], "country") = JStr("DE")
  /\ "tier" \notin DOMAIN EnrichCall.result[1]
  /\ Get(EnrichCall.result[1], "premium_subscriber") = JBool(TRUE)
  /\ Get(EnrichCall.result[1], "at_risk_churn") = JBool(FALSE)
  /\ "_attribute_source" \notin DOMAIN EnrichCall.result[1]

\* C26: the object getEnrichedUserAttributes returns has no entry that is
\* undefined or null, whichever branch built it.
C26_NoUndefinedOrNull ==
  (enrichment.call # <<>> /\ EnrichCall.pc = "returned")
    => \A k \in DOMAIN EnrichCall.result[1] :
         EnrichCall.result[1][k].t \notin {"undefined", "null"}

\* With Hightouch data: the caller's null country and the tier the provider
\* left undefined are both gone from the result.
C26_Witness ==
  /\ enrichment.call # <<>>
  /\ EnrichCall.pc = "returned"
  /\ OnFoundPath
  /\ EnrichCall.existingAttributes = Prop("country", JNull)
  /\ EnrichCall.outcome[1].data[1].tier = JUndefined
  /\ EnrichCall.outcome[1].data[1].custom_attributes = EmptyObject
  /\ DOMAIN EnrichCall.result[1] \cap {"country", "tier"} = {}
  /\ "premium_subscriber" \in DOMAIN EnrichCall.result[1]

(***************************************************************************)
(* Properties of the identification of the user.                           *)
(***************************************************************************)
\* The first of the fields, in the order given, that holds a value, and
\* otherwise the default; a field holds a value when it is neither missing
\* nor empty.
FirstPresent(fields, default) ==
  LET present == {i \in DOMAIN fields : Truthy(fields[i])}
  IN  IF present = {} THEN default
      ELSE fields[CHOOSE i \in present : \A j \in present : i <= j]

\* C23: an invocation's userId is the first present of user_id,
\* external_user_id, userId and subject of its body and 'unknown-user' when
\* none is; its userAttributes are user_attributes when present, else
\* attributes, else the empty object; and an invocation without user goes
\* on like any other: past the gate it has resolved, and when done it
\* returns the aggregate for 'unknown-user' with the preview of its
\* assignment.
C23_UserIdentification ==
  \A r \in InFlight :
    /\ r.userId = FirstPresent(<<r.body.user_id, r.body.external_user_id, r.body.userId,
                                 r.body.subject>>, "unknown-user")
    /\ r.userAttributes =
         (IF r.body.user_attributes # <<>> THEN r.body.user_attributes[1]
          ELSE IF r.body.attributes # <<>> THEN r.body.attributes[1]
          ELSE EmptyAttrs)
    /\ r.pc \in {"gate", "trigger", "done"}
    /\ r.pc \in {"trigger", "done"} => r.resolved
    /\ r.pc = "done"
         => /\ r.result # <<>>
            /\ r.result[1].userId = r.userId
            /\ r.result[1].messagePreview = MessagePreview(r.assignment)

\* A request without any identifying field was resolved for 'unknown-user'
\* and returned with the treatment preview.
C23_Witness ==
  \E r \in InFlight :
    /\ r.body = EmptyBody
    /\ r.pc = "done"
    /\ r.userId = "unknown-user"
    /\ lastCall.userId = "unknown-user"
    /\ lastCall.returned.path = "returned"
    /\ r.result[1].userId = "unknown-user"
    /\ r.result[1].messagePreview.type = "TREATMENT"

\* C24: an invocation whose body carries no user attributes has, by the
\* time it resolved, had getEnrichedUserAttributes run for its user, and
\* getAssignment received the attributes that call returned.
C24_EnrichesBeforeResolve ==
  \A r \in InFlight :
    (r.resolved /\ r.body.user_attributes = <<>> /\ r.body.attributes = <<>>)
      => /\ enrichment.call # <<>>
         /\ enrichment.call[1].userId = r.userId
         /\ enrichment.call[1].pc = "returned"
         /\ <<r.userAttributes>> = enrichment.call[1].result

\* C36: the messagePreview returned for the webhook of a triggered campaign
\* has the type of the eppo_assignment the campaign was triggered with and
\* the webhook carries.
C36_CallbackPreviewMatchesTrigger ==
  \A r \in InFlight :
    (r.origin = "braze" /\ r.pc = "done")
      => r.result[1].messagePreview = MessagePreview(r.body.eppo_assignment)

\* The invocations that the step moved past getAssignment.
JustResolved ==
  {s \in BagToSet(inv') : s.resolved /\ CopiesIn(s, inv') > CopiesIn(s, inv)}

\* C37: a getAssignment call made before initializeEppo has completed or
\* after it failed, the tracker being uninitialized, does not call the
\* provider; the invocation that made it carries the assignment null, is
\* answered with the DEFAULT preview, and, when its body is not classified
\* as a Braze webhook and the campaign id is set, calls triggerCampaign
\* with eppo_assignment null.
C37_UninitializedNeverCallsProvider ==
  [][/\ (Called /\ initPc # "resolved")
        => /\ ~lastCall'.returned.providerCalled
           /\ lastCall'.returned.assignment = Null
           /\ \A s \in JustResolved :
                /\ s.assignment = Null
                /\ IF ~s.isFromBrazeWebhook /\ CampaignConfigured
                   THEN /\ s.pc = "trigger"
                        /\ s.triggerProperties
                             = <<[eppo_flag_key |-> ExperimentFlagKey, eppo_assignment |-> Null]>>
                        /\ triggerCalls' = triggerCalls + 1
                   ELSE s.pc = "done" /\ triggerCalls' = triggerCalls
      /\ \A s \in BagToSet(inv') :
           (s.pc = "done" /\ s.assignment = Null)
             => s.result[1].messagePreview.type = "DEFAULT"]_vars

\* A request from /send-message was handled while EppoSdk.init was still
\* pending: it awaits the triggerCampaign call it made with
\* eppo_assignment null.
C37_Witness ==
  /\ initPc = "awaiting"
  /\ lastCall.returned.path = "uninitialized"
  /\ \E r \in InFlight :
       /\ r.body = InternalBody("u1", EmptyAttrs)
       /\ r.pc = "trigger"
       /\ r.triggerProperties[1].eppo_assignment = Null

(***************************************************************************)
(* Termination of the invocations.                                         *)
(***************************************************************************)
\* The bodies of the invocations that run side by side: those callers post
\* and those of the webhooks Braze sends.
RunningBodies ==
  LiveBodies \cup {WebhookCampaignBody("u1", ExperimentFlagKey, a) : a \in Variations \cup {Null}}

Unfinished(b) == \E r \in InFlight : r.body = b /\ r.pc # "done"

Returned(b) ==
  \E r \in InFlight :
    /\ r.body = b
    /\ r.pc = "done"
    /\ r.result = <<Aggregate(r.userId, r.assignment, r.flagKey)>>

\* C25: when every awaited call to Braze settles, an invocation that is
\* running returns its aggregate at some time, whatever other invocations
\* do meanwhile.
C25_InvocationsReturn == \A b \in RunningBodies : Unfinished(b) ~> Returned(b)

\* Two invocations at once, one awaiting the gate and one the trigger.
C25_Witness ==
  /\ \E r \in InFlight : r.pc = "gate"
  /\ \E r \in InFlight : r.pc = "trigger"

====
